---- MODULE Spec2Model ----
(***************************************************************************)
(* Connection / task / transaction coordination of lib/database.js.       *)
(*                                                                         *)
(* Every call of Database.query, Database.connect, obj.task and obj.tx    *)
(* creates an "invocation" (a frame): its own ConnectionContext, the      *)
(* future it returns, and the position of its promise chain.  The         *)
(* physical connections, the pool and the driver are the environment:     *)
(* they settle acquisitions and statements with success or failure.       *)
(*                                                                         *)
(* lib/cnContext.js, lib/connect.js, lib/query.js and lib/task.js are     *)
(* called by database.js but are not part of the sources at hand; the     *)
(* definitions modelling them (clone, connect, disconnect, execStart,     *)
(* ctlOp, CbSettle, BeginSettle, CtlSettle, TaskQuery) follow the design  *)
(* document, constrained by how database.js uses them.                    *)
(***************************************************************************)
EXTENDS Integers, Sequences, FiniteSets, TLC

\* ---------------------------------------------------------------- bounds
MaxInv == 2      \* invocations (query / connect / task / tx calls) per run
NConn == 2       \* physical connections the pool can hand out
MaxQ == 2        \* statements issued through connect / task handles per run
MaxFail == 1     \* faults per run: pool failures, statement failures, throwing callbacks
MaxDone == 2     \* done() calls per connect handle
MaxNest == 3     \* invocations per run of nested tasks / transactions alone

\* ------------------------------------------------------------- constants
NoConn == 0      \* ctx.db is null / undefined
NoLevel == -1    \* ctx.txLevel is undefined
Root == 0        \* the root Database object (its context is never connected)

MaxFrames == IF MaxNest > MaxInv THEN MaxNest ELSE MaxInv
Frames == 1..MaxFrames
Conns == 1..NConn

VARIABLES
    frames,      \* frame -> invocation record (context, promise position, result)
    nf,          \* number of invocations made so far
    acquired,    \* connection -> number of times the pool / driver handed it out
    released,    \* connection -> number of times db.done() was called on it
    trace,       \* connection -> sequence of events observed on it
    call,        \* one call of a query-shaped operation: its arguments, the
                 \* answer of the driver, and what came of it
    obj,         \* one protocol object: its properties, how far extend() has
                 \* locked it, and the assignments tried on it
    dbObjects,   \* the keys of the Database objects created in the process
    created      \* the Database constructor calls so far, with their outcome

vars == <<frames, nf, acquired, released, trace>>

\* A frame before its invocation exists.
\*   kind      "query" | "connect" | "task" | "tx"
\*   parent    the handle the operation was invoked on (Root, or a frame)
\*   db        ctx.db of the invocation's context (NoConn when not connected)
\*   txLevel   ctx.txLevel
\*   own       the invocation asked the pool / driver for a connection
\*   pc        position of the promise chain; "resolved" / "rejected" once the
\*             returned future has settled
\*   cb        taskCtx.cb: the kind of value passed as the callback
\*   cbRun     the callback has been called (the task object is in user hands)
\*   cbRes     what the callback settled with (cbData / cbReason of task.exec)
\*   res       what the returned future settled with
\*   reported  the failure of the rollback statement, reported apart from
\*             the reason the future rejects with
\*   failed    the method of the handle whose last call failed at once
\*   how       how it failed: "throw" (synchronously) or "reject" (a future)
\*   nq        statements issued through the handle so far
\*   qErr      the driver's reason for the last statement of the handle that
\*             failed
\* history, never read by the program:
\*   conn      the connection bound to the context at entry / acquisition
\*   inherited the connection the clone carried at entry
\*   nqCb      nq at the moment the callback settled
\*   nDone     calls of done() on the handle so far
Unused ==
    [kind |-> "none", parent |-> Root, db |-> NoConn, txLevel |-> NoLevel,
     own |-> FALSE, pc |-> "unused", cb |-> "", cbRun |-> FALSE, cbRes |-> "",
     res |-> "", reported |-> "", failed |-> "", how |-> "", nq |-> 0, qErr |-> "",
     conn |-> NoConn, inherited |-> NoConn, nqCb |-> 0, nDone |-> 0]

\* An event on a connection: a statement, or ACQ / REL of the connection.
\*   f  = the invocation that issued it, n = statement number on that handle
\*        (user statements) or savepoint level (control statements),
\*   ok = "ok" | "fail" | "?" (still in flight).
Stmt(op, f, n, ok) == [op |-> op, f |-> f, n |-> n, ok |-> ok]

issue(tr, c, s) == [tr EXCEPT ![c] = Append(@, s)]

\* The driver reports the outcome of the pending statement of frame f.
complete(tr, c, f, ok) ==
    [tr EXCEPT ![c] = [i \in DOMAIN @ |->
        IF @[i].f = f /\ @[i].ok = "?"
        THEN [@[i] EXCEPT !.ok = IF ok THEN "ok" ELSE "fail"]
        ELSE @[i]]]

\* statements issued through handles so far
RECURSIVE SumQ(_)
SumQ(n) == IF n = 0 THEN 0 ELSE frames[n].nq + SumQ(n - 1)
TotalQ == SumQ(MaxFrames)

\* Faults so far: acquisitions the pool failed, statements the driver failed,
\* callbacks that threw.  Each leaves its mark on the invocation it hit.
Faulty(fr) ==
    \/ fr.res \in {"PoolError", "DriverError"}
    \/ fr.reported # ""
    \/ fr.qErr # ""
    \/ "ThrownError" \in {fr.res, fr.cbRes}
NFault == Cardinality({f \in Frames : Faulty(frames[f])})
MayFail == NFault < MaxFail

\* The pool hands out only connections that are not checked out; which of
\* the idle ones it picks makes no difference, so it is the first.
Idle(c) == acquired[c] <= released[c]
Free(c) == Idle(c) /\ \A d \in 1..(c - 1) : ~Idle(d)

\* ------------------------------------------------------ ConnectionContext
\* The context behind a handle: the root object's context is never connected.
CtxOf(h) ==
    IF h = Root THEN [db |-> NoConn, txLevel |-> NoLevel]
    ELSE [db |-> frames[h].db, txLevel |-> frames[h].txLevel]

\* variant: the clone takes the descriptors only
cloneDescriptorsOnly(ctx) == [db |-> NoConn, txLevel |-> NoLevel]

\* ctx.clone(): taskProcessor tests taskCtx.db and taskCtx.txLevel of the
\* clone, so the clone carries the parent's connection and level.
clone(ctx) == [db |-> ctx.db, txLevel |-> ctx.txLevel]

\* ctx.connect(db)
connect(fr, c) == [fr EXCEPT !.db = c, !.conn = c]

\* ctx.disconnect(): releases the bound connection, if any, and unbinds it.
disconnect(fr) == [fr EXCEPT !.db = NoConn]

\* db.done() ran in the step that took the context from fr to nfr.
Released(fr, nfr) == fr.db # NoConn /\ nfr.db = NoConn

\* The invocation's record becomes nfr; the pool and the connection see the
\* release when its context was disconnected on the way.
Update(f, fr, nfr, tr) ==
    /\ frames' = [frames EXCEPT ![f] = nfr]
    /\ released' = IF Released(fr, nfr)
                   THEN [released EXCEPT ![fr.db] = @ + 1] ELSE released
    /\ trace' = IF Released(fr, nfr)
                THEN issue(tr, fr.db, Stmt("REL", f, 0, "ok")) ELSE tr

\* A handle that user code can hold: the root object, a connect handle once
\* connect resolved, a task / transaction object once its callback was called.
HandleUsable(h) ==
    \/ h = Root
    \/ /\ h \in 1..nf
       /\ \/ frames[h].kind = "connect" /\ frames[h].pc = "resolved"
          \/ frames[h].kind \in {"task", "tx"} /\ frames[h].cbRun

\* no invocation has been made
NoInvocation ==
    /\ frames = [f \in Frames |-> Unused]
    /\ nf = 0
    /\ acquired = [c \in Conns |-> 0]
    /\ released = [c \in Conns |-> 0]
    /\ trace = [c \in Conns |-> <<>>]

\* what the coordination of connections leaves alone
others == <<call, obj, dbObjects, created>>

\* no query-shaped operation is being looked at
NoCall == [op |-> "", qrm |-> {}, in |-> <<>>, out |-> <<>>]

\* no protocol object is being looked at
NoObject == [kind |-> "", owner |-> <<>>, readOnly |-> {}, frozen |-> FALSE, log |-> <<>>]

\* the registry of keys when the process starts (connection handling never
\* reads it)
EmptyRegistry == dbObjects = {} /\ created = <<>>

Init ==
    /\ NoInvocation
    /\ call = NoCall
    /\ obj = NoObject
    /\ EmptyRegistry

\* The pool / driver hands connection c to the context of invocation f.
Acquire(c) ==
    /\ Free(c)
    /\ acquired' = [acquired EXCEPT ![c] = @ + 1]

acquireTrace(tr, c, f) == issue(tr, c, Stmt("ACQ", f, 0, "ok"))

\* ---------------------------------------------------------- Database.query
\* this.query: a new context, then the pool is asked for a connection.
RootQuery ==
    /\ UNCHANGED others
    /\ nf < MaxInv
    /\ nf' = nf + 1
    /\ frames' = [frames EXCEPT ![nf + 1] =
                    [Unused EXCEPT !.kind = "query", !.pc = "connecting", !.own = TRUE]]
    /\ UNCHANGED <<acquired, released, trace>>

\* .then(data => { ctx.disconnect(); return data; })
queryThen(fr, data) == [disconnect(fr) EXCEPT !.pc = "resolved", !.res = data]

\* variant: the .catch handler of this.query forgets ctx.disconnect()
queryCatchNoDisconnect(fr, error) == [fr EXCEPT !.pc = "rejected", !.res = error]

\* variant: the .catch handler rejects with an error of its own
queryCatchWrapsError(fr, error) == [disconnect(fr) EXCEPT !.pc = "rejected", !.res = "Error"]

\* .catch(error => { ctx.disconnect(); return $p.reject(error); })
queryCatch(fr, error) == [disconnect(fr) EXCEPT !.pc = "rejected", !.res = error]

\* The pool settles: .then(db => { ctx.connect(db); return $npm.query(...); })
\* sends the statement, or the rejection falls through to the .catch handler.
RootQueryConnected(f) ==
    /\ UNCHANGED others
    /\ f \in 1..nf
    /\ frames[f].kind = "query" /\ frames[f].pc = "connecting"
    /\ \/ \E c \in Conns :
            /\ Acquire(c)
            /\ frames' = [frames EXCEPT ![f] = [connect(@, c) EXCEPT !.pc = "executing"]]
            /\ trace' = issue(acquireTrace(trace, c, f), c, Stmt("Q", f, 1, "?"))
            /\ UNCHANGED released
       \/ /\ MayFail
          /\ Update(f, frames[f], queryCatch(frames[f], "PoolError"), trace)
          /\ UNCHANGED acquired
    /\ UNCHANGED nf

\* The statement settles: the .then handler on success, the .catch handler on
\* failure.
RootQueryDone(f) ==
    /\ UNCHANGED others
    /\ f \in 1..nf
    /\ frames[f].kind = "query" /\ frames[f].pc = "executing"
    /\ \E ok \in BOOLEAN :
        /\ ok \/ MayFail
        /\ Update(f, frames[f],
                  IF ok THEN queryThen(frames[f], "data")
                  ELSE queryCatch(frames[f], "DriverError"),
                  complete(trace, frames[f].db, f, ok))
    /\ UNCHANGED <<nf, acquired>>

\* -------------------------------------------------------- Database.connect
\* this.connect: a new context, then connect[method](ctx) with method 'pool'
\* or 'direct'; both acquire one physical connection for the context.
Connect ==
    /\ UNCHANGED others
    /\ nf < MaxInv
    /\ nf' = nf + 1
    /\ frames' = [frames EXCEPT ![nf + 1] =
                    [Unused EXCEPT !.kind = "connect", !.pc = "connecting", !.own = TRUE]]
    /\ UNCHANGED <<acquired, released, trace>>

\* .then(db => { ctx.connect(db); extend(ctx, self); return self; }), or the
\* rejection of the pool / driver passes through unchanged.
ConnectSettle(f) ==
    /\ UNCHANGED others
    /\ f \in 1..nf
    /\ frames[f].kind = "connect" /\ frames[f].pc = "connecting"
    /\ \/ \E c \in Conns :
            /\ Acquire(c)
            /\ frames' = [frames EXCEPT ![f] = [connect(@, c) EXCEPT !.pc = "resolved"]]
            /\ trace' = acquireTrace(trace, c, f)
       \/ /\ MayFail
          /\ frames' = [frames EXCEPT ![f] = [@ EXCEPT !.pc = "rejected", !.res = "PoolError"]]
          /\ UNCHANGED <<acquired, trace>>
    /\ UNCHANGED <<nf, released>>

\* throw new Error("Cannot ... on a disconnected client."): the call of the
\* method fails synchronously, no future is returned.
usageError(fr, method) == [fr EXCEPT !.failed = method, !.how = "throw"]

\* variant: done() on a disconnected context is silently ignored
doneSilent(fr) == disconnect(fr)

\* self.done(): on a disconnected context it throws, else ctx.disconnect().
done(fr) == IF fr.db = NoConn THEN usageError(fr, "done") ELSE disconnect(fr)

Done(h) ==
    /\ UNCHANGED others
    /\ HandleUsable(h) /\ h # Root
    /\ frames[h].kind = "connect"
    /\ frames[h].nDone < MaxDone
    /\ Update(h, frames[h], [done(frames[h]) EXCEPT !.nDone = @ + 1], trace)
    /\ UNCHANGED <<nf, acquired>>

\* The query-shaped methods extend() puts on a handle, and the method each
\* one calls: all end in obj.query.
QueryOps ==
    {"query", "none", "one", "many", "oneOrNone", "manyOrNone", "any",
     "result", "stream", "func", "proc", "map", "each"}

calls(op) ==
    CASE op = "proc" -> "func"
      [] op \in {"map", "each"} -> "any"
      [] OTHER -> "query"

RECURSIVE entry(_)
entry(op) == IF op = "query" THEN op ELSE entry(calls(op))

\* variant: the query method asks for any connection instead of using ctx.db
handleQueryAnyConnection(h) ==
    /\ frames[h].db # NoConn
    /\ TotalQ < MaxQ
    /\ \E c \in Conns :
          trace' = issue(trace, c, Stmt("Q", h, frames[h].nq + 1, "ok"))
    /\ frames' = [frames EXCEPT ![h].nq = @ + 1]

\* variant: on a disconnected context the statement goes to the connection
\* the handle had
handleQueryUnchecked(h) ==
    /\ TotalQ < MaxQ
    /\ frames[h].conn # NoConn
    /\ trace' = issue(trace, frames[h].conn, Stmt("Q", h, frames[h].nq + 1, "ok"))
    /\ frames' = [frames EXCEPT ![h].nq = @ + 1]

\* The generic query method of a handle: on a disconnected context it throws,
\* else the statement is sent on ctx.db.  The driver's answer goes to the
\* caller of the method and changes nothing here.
handleQuery(h) ==
    IF frames[h].db = NoConn
    THEN /\ frames' = [frames EXCEPT ![h] = usageError(@, "query")]
         /\ UNCHANGED trace
    ELSE /\ TotalQ < MaxQ
         /\ \E ok \in BOOLEAN :
              /\ ok \/ MayFail
              /\ trace' = issue(trace, frames[h].db,
                                Stmt("Q", h, frames[h].nq + 1, IF ok THEN "ok" ELSE "fail"))
              /\ frames' = [frames EXCEPT ![h].nq = @ + 1,
                                          ![h].qErr = IF ok THEN @ ELSE "DriverError"]

\* a query-shaped method of a connect handle
ConnectQuery(h) ==
    /\ UNCHANGED others
    /\ HandleUsable(h) /\ h # Root
    /\ frames[h].kind = "connect"
    /\ \A op \in QueryOps : entry(op) = "query"
    /\ handleQuery(h)
    /\ UNCHANGED <<nf, acquired, released>>

\* a query-shaped method of a task / transaction object
TaskQuery(h) ==
    /\ UNCHANGED others
    /\ HandleUsable(h) /\ h # Root
    /\ frames[h].kind \in {"task", "tx"}
    /\ \A op \in QueryOps : entry(op) = "query"
    /\ handleQuery(h)
    /\ UNCHANGED <<nf, acquired, released>>

\* ------------------------------------------------------------ task.exec
\* variant: the top-level statement at every depth
ctlOpAlwaysTop(fr, top, nested) == top

\* exec(top, nested): the nested statement when ctx.txLevel is positive.
ctlOp(fr, top, nested) == IF fr.txLevel > 0 THEN nested ELSE top

ctlStmt(fr, f, top, nested) == Stmt(ctlOp(fr, top, nested), f, fr.txLevel, "?")

\* task.exec starts: a transaction issues BEGIN / SAVEPOINT and waits for it;
\* a task calls its callback at once.
execStart(fr) ==
    IF fr.kind = "tx" THEN [fr EXCEPT !.pc = "begin"]
    ELSE [fr EXCEPT !.pc = "running", !.cbRun = TRUE]
\* variant: a plain task opens a transaction as well
execTraceAlwaysBegins(fr, f, tr) ==
    issue(tr, fr.db, ctlStmt(fr, f, "BEGIN", "SAVEPOINT"))

execTrace(fr, f, tr) ==
    IF fr.kind = "tx" THEN issue(tr, fr.db, ctlStmt(fr, f, "BEGIN", "SAVEPOINT")) ELSE tr

\* the promise of task.exec settles
execSettled(fr, ok, val) ==
    [fr EXCEPT !.pc = IF ok THEN "resolved" ELSE "rejected", !.res = val]

\* ---------------------------------------------------------- taskProcessor
\* variants: every transaction starts at level 0; the level is not
\* incremented for a transaction inside a transaction
txLevelAlwaysTop(lvl, isTX) == IF isTX THEN 0 ELSE lvl

txLevelNoIncrement(lvl, isTX) == IF isTX /\ lvl < 0 THEN 0 ELSE lvl

\* taskCtx.txLevel = taskCtx.txLevel >= 0 ? (taskCtx.txLevel + 1) : 0, in
\* transaction mode only.
txLevelOnEntry(lvl, isTX) ==
    IF isTX THEN (IF lvl >= 0 THEN lvl + 1 ELSE 0) ELSE lvl

\* variant: the connection of the context is never reused
reuseConnectionNever(ctx) == FALSE

\* if (taskCtx.db): reuse the existing connection
reuseConnection(ctx) == ctx.db # NoConn

\* variants: the .then handler forgets taskCtx.disconnect(); the .then
\* handler forgets to return the data
taskThenNoDisconnect(fr, data) == [fr EXCEPT !.pc = "resolved", !.res = data]

taskThenDropsData(fr, data) == [disconnect(fr) EXCEPT !.pc = "resolved", !.res = "undefined"]

\* .then(data => { taskCtx.disconnect(); return data; })
taskThen(fr, data) == [disconnect(fr) EXCEPT !.pc = "resolved", !.res = data]

\* variants: the .catch handler forgets taskCtx.disconnect(); it returns the
\* error instead of rejecting with it; it rejects with an error of its own
taskCatchNoDisconnect(fr, error) == [fr EXCEPT !.pc = "rejected", !.res = error]

taskCatchSwallows(fr, error) == [disconnect(fr) EXCEPT !.pc = "resolved", !.res = error]

taskCatchWrapsError(fr, error) == [disconnect(fr) EXCEPT !.pc = "rejected", !.res = "Error"]

\* .catch(error => { taskCtx.disconnect(); return $p.reject(error); })
taskCatch(fr, error) == [disconnect(fr) EXCEPT !.pc = "rejected", !.res = error]

\* variant: the .then / .catch handlers also run on the reusing path
futureAlwaysDisconnects(fr, ok, val) ==
    IF ok THEN taskThen(fr, val) ELSE taskCatch(fr, val)

\* The future taskProcessor returned settles: on the reusing path it is the
\* promise of task.exec itself; on the acquiring path the .then / .catch
\* handlers run first.
future(fr, ok, val) ==
    IF fr.own
    THEN (IF ok THEN taskThen(fr, val) ELSE taskCatch(fr, val))
    ELSE execSettled(fr, ok, val)

Finish(f, fr, ok, val, tr) == Update(f, fr, future(fr, ok, val), tr)

\* The values task / tx are called with: a function, a tag, any other object,
\* or nothing.
P1Values == {"function", "string", "object"}
P2Values == {"undefined", "function", "string", "object"}

\* taskCtx.cb = p1; if (p2 !== undefined) { tag = p1; taskCtx.cb = p2; }
callbackOf(p1, p2) == IF p2 # "undefined" THEN p2 ELSE p1

\* variant: every value is taken for a callback
isFunctionAlways(cb) == TRUE

\* typeof cb === 'function'
isFunction(cb) == cb = "function"

\* variant: no clone is made, the level is set on the calling context
onCaller(fs, h, f, fr) ==
    [g \in Frames |->
        IF g = f THEN fr
        ELSE IF g = h THEN [fs[g] EXCEPT !.txLevel = fr.txLevel]
        ELSE fs[g]]

\* taskCtx = ctx.clone(): what taskProcessor sets, it sets on the clone, the
\* context of the new invocation f; the context of the handle h stays as is.
onClone(fs, h, f, fr) == [fs EXCEPT ![f] = fr]

taskProcessor(h, p1, p2, isTX) ==
    /\ UNCHANGED others
    /\ nf < MaxFrames
    /\ HandleUsable(h)
    /\ LET f == nf + 1
           taskCtx == clone(CtxOf(h))
           validCb == isFunction(callbackOf(p1, p2))
           fr == [Unused EXCEPT !.kind = IF isTX THEN "tx" ELSE "task",
                                !.parent = h,
                                !.cb = callbackOf(p1, p2),
                                !.db = taskCtx.db,
                                !.conn = taskCtx.db,
                                !.inherited = taskCtx.db,
                                !.txLevel = txLevelOnEntry(taskCtx.txLevel, isTX)]
       IN  /\ nf' = f
           /\ IF ~validCb
              THEN /\ frames' = onClone(frames, h, f,
                                         [fr EXCEPT !.pc = "rejected", !.res = "TypeError"])
                   /\ UNCHANGED trace
              ELSE IF reuseConnection(taskCtx)
              THEN /\ frames' = onClone(frames, h, f, execStart(fr))
                   /\ trace' = execTrace(fr, f, trace)
              ELSE /\ frames' = onClone(frames, h, f,
                                         [fr EXCEPT !.pc = "connecting", !.own = TRUE])
                   /\ UNCHANGED trace
    /\ UNCHANGED <<acquired, released>>

\* obj.task = taskProcessor.call(this, p1, p2, false)
task(h, p1, p2) == taskProcessor(h, p1, p2, FALSE)

\* obj.tx = taskProcessor.call(this, p1, p2, true)
tx(h, p1, p2) == taskProcessor(h, p1, p2, TRUE)

Task ==
    /\ nf < MaxInv
    /\ \E h \in {Root} \cup Frames, p1 \in P1Values, p2 \in P2Values : task(h, p1, p2)

Tx ==
    /\ nf < MaxInv
    /\ \E h \in {Root} \cup Frames, p1 \in P1Values, p2 \in P2Values : tx(h, p1, p2)

\* connect.pool(taskCtx) settles: .then(db => { taskCtx.connect(db); return
\* task.exec(...); }), or the rejection falls through to the .catch handler.
PoolSettle(f) ==
    /\ UNCHANGED others
    /\ f \in 1..nf
    /\ frames[f].kind \in {"task", "tx"} /\ frames[f].pc = "connecting"
    /\ \/ \E c \in Conns :
            /\ Acquire(c)
            /\ frames' = [frames EXCEPT ![f] = execStart(connect(@, c))]
            /\ trace' = execTrace(connect(frames[f], c), f, acquireTrace(trace, c, f))
            /\ UNCHANGED released
       \/ /\ MayFail
          /\ Finish(f, frames[f], FALSE, "PoolError", trace)
          /\ UNCHANGED acquired
    /\ UNCHANGED nf

\* BEGIN / SAVEPOINT settles: on success the callback is called, on failure
\* the transaction rejects with the driver's reason.
BeginSettle(f) ==
    /\ UNCHANGED others
    /\ f \in 1..nf
    /\ frames[f].pc = "begin"
    /\ \E ok \in BOOLEAN :
        LET tr == complete(trace, frames[f].db, f, ok)
        IN  /\ ok \/ MayFail
            /\ IF ok
               THEN /\ frames' = [frames EXCEPT ![f] = [@ EXCEPT !.pc = "running", !.cbRun = TRUE]]
                    /\ trace' = tr
                    /\ UNCHANGED released
               ELSE Finish(f, frames[f], FALSE, "DriverError", tr)
    /\ UNCHANGED <<nf, acquired>>

\* The callback settles: it returns a value or a resolved future ("resolve"),
\* returns a future rejected with a reason of its own ("reject") or with the
\* driver's reason for a statement of its task object that failed
\* ("propagate"), or throws ("throw"; caught by task.exec and turned into a
\* rejection with the thrown error).
\* A task settles with the callback's outcome; a transaction saves the
\* outcome and issues COMMIT / ROLLBACK (or the savepoint statements).
CbOutcomes == {"resolve", "reject", "propagate", "throw"}

cbValue(outcome) ==
    CASE outcome = "resolve" -> "data"
      [] outcome = "reject" -> "RejectedError"
      [] outcome = "propagate" -> "DriverError"
      [] outcome = "throw" -> "ThrownError"

CbSettle(f) ==
    /\ UNCHANGED others
    /\ f \in 1..nf
    /\ frames[f].pc = "running"
    /\ \E outcome \in CbOutcomes :
        LET fr == [frames[f] EXCEPT !.cbRes = cbValue(outcome), !.nqCb = frames[f].nq]
            ok == outcome = "resolve"
        IN  /\ outcome = "throw" => MayFail
            /\ outcome = "propagate" => frames[f].qErr # ""
            /\ IF fr.kind = "tx"
               THEN /\ frames' = [frames EXCEPT ![f] =
                                    [fr EXCEPT !.pc = IF ok THEN "commit" ELSE "rollback"]]
                    /\ trace' = issue(trace, fr.db,
                                      IF ok THEN ctlStmt(fr, f, "COMMIT", "RELEASE SAVEPOINT")
                                      ELSE ctlStmt(fr, f, "ROLLBACK", "ROLLBACK TO SAVEPOINT"))
                    /\ UNCHANGED released
               ELSE Finish(f, fr, ok, fr.cbRes, trace)
    /\ UNCHANGED <<nf, acquired>>

\* variant: a failed rollback statement replaces the callback's reason
rollbackReasonMasked(cbReason, ok) == IF ok THEN cbReason ELSE "DriverError"

\* The reason a rolled-back transaction rejects with: the callback's, whether
\* the rollback statement worked or not.
rollbackReason(cbReason, ok) == cbReason

\* COMMIT / ROLLBACK settles.  After COMMIT the transaction resolves with the
\* callback's data, or rejects with the driver's reason when COMMIT failed;
\* after ROLLBACK it rejects with the callback's original reason, whether
\* the rollback statement worked or not.
CtlSettle(f) ==
    /\ UNCHANGED others
    /\ f \in 1..nf
    /\ frames[f].pc \in {"commit", "rollback"}
    /\ \E ok \in BOOLEAN :
        LET fr == frames[f]
            tr == complete(trace, fr.db, f, ok)
        IN  /\ ok \/ MayFail
            /\ IF fr.pc = "commit" /\ ok
               THEN Finish(f, fr, TRUE, fr.cbRes, tr)
               ELSE IF fr.pc = "commit"
               THEN Finish(f, fr, FALSE, "DriverError", tr)
               ELSE Finish(f, [fr EXCEPT !.reported = IF ok THEN "" ELSE "DriverError"],
                           FALSE, rollbackReason(fr.cbRes, ok), tr)
    /\ UNCHANGED <<nf, acquired>>

Next ==
    \/ RootQuery
    \/ \E f \in Frames : RootQueryConnected(f)
    \/ \E f \in Frames : RootQueryDone(f)
    \/ Connect
    \/ \E f \in Frames : ConnectSettle(f)
    \/ \E h \in Frames : Done(h)
    \/ \E h \in Frames : ConnectQuery(h)
    \/ \E h \in Frames : TaskQuery(h)
    \/ Task
    \/ Tx
    \/ \E f \in Frames : PoolSettle(f)
    \/ \E f \in Frames : BeginSettle(f)
    \/ \E f \in Frames : CbSettle(f)
    \/ \E f \in Frames : CtlSettle(f)

Spec == Init /\ [][Next]_vars

\* The pool, the driver and every callback eventually settle.
Fairness ==
    \A f \in Frames :
        /\ WF_vars(RootQueryConnected(f))
        /\ WF_vars(RootQueryDone(f))
        /\ WF_vars(ConnectSettle(f))
        /\ WF_vars(PoolSettle(f))
        /\ WF_vars(BeginSettle(f))
        /\ WF_vars(CbSettle(f))
        /\ WF_vars(CtlSettle(f))

LiveSpec == Spec /\ Fairness

\* ------------------------------------------------------------- nesting
\* Tasks and transactions alone, called with a callback, one level deeper
\* than above: a handle, an invocation on it, and an invocation on that one
\* or next to it.
NestedTask ==
    /\ nf < MaxNest
    /\ \E h \in {Root} \cup Frames : task(h, "function", "undefined")

NestedTx ==
    /\ nf < MaxNest
    /\ \E h \in {Root} \cup Frames : tx(h, "function", "undefined")

NestNext ==
    \/ NestedTask
    \/ NestedTx
    \/ \E f \in Frames : PoolSettle(f)
    \/ \E f \in Frames : BeginSettle(f)
    \/ \E f \in Frames : CbSettle(f)
    \/ \E f \in Frames : CtlSettle(f)

NestSpec == Init /\ [][NestNext]_vars

\* ------------------------------------------------ query-shaped operations
\* The operations extend() attaches to a protocol object, looked at one call
\* at a time on a connected context: the driver answers the statement with a
\* row set or with a failure, lib/query.js shapes the rows by the mask the
\* operation passed, and the operation post-processes what comes back.
MaxRows == 3     \* rows a statement returns

RowValues == {"a", "b"}
RowSets == UNION {[1..n -> RowValues] : n \in 0..MaxRows}

NoIndex == -1    \* the callback is called with the value alone

\* a value a future settles with: its kind t, the rows it is made of, and
\* what was made of them (items: the results of a per-row callback; of: the
\* kind of the value a transformation was applied to)
Value(t, rows) == [t |-> t, rows |-> rows, items |-> <<>>, of |-> ""]
null == Value("null", <<>>)
row(r) == Value("row", <<r>>)
array(rows) == Value("array", rows)
failure(name) == Value(name, <<>>)

resolved(v) == [state |-> "resolved", value |-> v]
rejected(e) == [state |-> "rejected", value |-> e]

\* a future together with the calls of the user's function made to settle it
Outcome(fut, made) == [future |-> fut, calls |-> made]

\* $npm.result: the flags of the query result mask; a | b is the union
resultOne == {"one"}
resultMany == {"many"}
resultNone == {"none"}
resultAny == resultOne \cup resultMany \cup resultNone
\* $npm.special.cache.resultQuery: the driver's result, unshaped
resultQuery == {"result"}

Masks == {resultOne, resultMany, resultNone, resultOne \cup resultNone,
          resultMany \cup resultNone, resultAny, resultQuery}

\* the callbacks a caller may pass: nothing, a value that is no function, a
\* function that returns, a function that throws
Callbacks == {[type |-> "undefined", throws |-> FALSE],
              [type |-> "string", throws |-> FALSE],
              [type |-> "function", throws |-> FALSE],
              [type |-> "function", throws |-> TRUE]}
Receivers == {"undefined", "thisArg"}

\* the arguments of a call and the answer of the driver
Calls == [rows : RowSets, fails : BOOLEAN, cb : Callbacks, thisArg : Receivers]

\* what the user's function returns for a value, and for row i of an array
returned(data) == [Value("cb", data.rows) EXCEPT !.of = data.t]
returnedAt(r, i) == [row |-> r, index |-> i]

\* one call of the user's function
Invocation(this, data, index) == [this |-> this, data |-> data, index |-> index]

\* lib/query.js: the rows against the mask.  NONE admits no rows, ONE one
\* row, MANY one or more; with MANY the rows come as an array.
masker(qrm, rows) ==
    LET n == Len(rows)
    IN  IF qrm = resultQuery THEN resolved(Value("Result", rows))
        ELSE IF n = 0 THEN
            IF resultNone \subseteq qrm
            THEN resolved(IF resultMany \subseteq qrm THEN array(rows) ELSE null)
            ELSE rejected(failure("No data returned from the query."))
        ELSE IF qrm \cap (resultOne \cup resultMany) = {}
            THEN rejected(failure("No return data was expected."))
        ELSE IF n > 1 /\ ~(resultMany \subseteq qrm)
            THEN rejected(failure("Multiple rows were not expected."))
        ELSE resolved(IF resultMany \subseteq qrm THEN array(rows) ELSE row(rows[1]))

\* obj.query on a connected context: the statement fails in the driver, or
\* its rows are shaped by the mask
query(c, qrm) ==
    Outcome(IF c.fails THEN rejected(failure("DriverError")) ELSE masker(qrm, c.rows),
            <<>>)

\* variants of singleValue: the callback is called whatever it is; the
\* callback is called for a rejection too
singleValueUntyped(value, cb, thisArg) ==
    IF cb.type # "undefined" /\ value.future.state = "resolved"
    THEN Outcome(IF cb.throws THEN rejected(failure("ThrownError"))
                 ELSE resolved(returned(value.future.value)),
                 Append(value.calls, Invocation(thisArg, value.future.value, NoIndex)))
    ELSE value

\* singleValue(value, cb, thisArg): value.then(data => cb.call(thisArg, data))
\* when cb is a function
singleValue(value, cb, thisArg) ==
    IF cb.type = "function" /\ value.future.state = "resolved"
    THEN Outcome(IF cb.throws THEN rejected(failure("ThrownError"))
                 ELSE resolved(returned(value.future.value)),
                 Append(value.calls, Invocation(thisArg, value.future.value, NoIndex)))
    ELSE value

\* the calls $arr.map / $arr.forEach make for an array: cb(row, index) with
\* the receiver, in index order, up to the first call that throws
visits(rows, cb, thisArg) ==
    LET n == IF cb.type # "function" THEN 0
             ELSE IF cb.throws /\ Len(rows) > 0 THEN 1
             ELSE Len(rows)
    IN  [i \in 1..n |-> Invocation(thisArg, row(rows[i]), i - 1)]

\* what comes of iterating the array: a TypeError for a callback that cannot
\* be called, the error the callback threw, or nothing
iterated(rows, cb) ==
    IF Len(rows) = 0 THEN ""
    ELSE IF cb.type # "function" THEN "TypeError"
    ELSE IF cb.throws THEN "ThrownError"
    ELSE ""

\* $arr.map(data, cb, thisArg) in the .then of obj.map
arrMap(value, cb, thisArg) ==
    LET rows == value.future.value.rows
    IN  IF value.future.state # "resolved" THEN value
        ELSE Outcome(IF iterated(rows, cb) # "" THEN rejected(failure(iterated(rows, cb)))
                     ELSE resolved([Value("array", <<>>) EXCEPT !.items =
                                      [i \in 1..Len(rows) |-> returnedAt(rows[i], i - 1)]]),
                     value.calls \o visits(rows, cb, thisArg))

\* $arr.forEach(data, cb, thisArg); return data
arrForEach(value, cb, thisArg) ==
    LET rows == value.future.value.rows
    IN  IF value.future.state # "resolved" THEN value
        ELSE Outcome(IF iterated(rows, cb) # "" THEN rejected(failure(iterated(rows, cb)))
                     ELSE value.future,
                     value.calls \o visits(rows, cb, thisArg))

\* variants: obj.one with the mask of oneOrNone, obj.none with the mask of
\* any, obj.oneOrNone with the mask of one, obj.any with the mask of many,
\* obj.map returning what obj.each returns
oneAsOneOrNone(c) ==
    singleValue(query(c, resultOne \cup resultNone), c.cb, c.thisArg)

noneAsAny(c) == query(c, resultAny)

oneOrNoneAsOne(c) == singleValue(query(c, resultOne), c.cb, c.thisArg)

anyAsMany(c) == query(c, resultMany)

mapAsEach(c) == arrForEach(query(c, resultAny), c.cb, c.thisArg)

\* the operations, for the arguments and the driver's answer c
none(c) == query(c, resultNone)

one(c) == singleValue(query(c, resultOne), c.cb, c.thisArg)

many(c) == query(c, resultMany)

oneOrNone(c) == singleValue(query(c, resultOne \cup resultNone), c.cb, c.thisArg)

manyOrNone(c) == query(c, resultMany \cup resultNone)

any(c) == query(c, resultAny)

result(c) == singleValue(query(c, resultQuery), c.cb, c.thisArg)

\* obj.func(funcName, values, qrm): obj.query with a function descriptor
func(c, qrm) == query(c, qrm)

proc(c) == singleValue(func(c, resultOne \cup resultNone), c.cb, c.thisArg)

map(c) == arrMap(any(c), c.cb, c.thisArg)

each(c) == arrForEach(any(c), c.cb, c.thisArg)

Pending == Outcome([state |-> "pending", value |-> null], <<>>)

\* the operation op is called with the arguments call.in and settles
Applied(op, qrm, out) ==
    /\ call.op = ""
    /\ call' = [call EXCEPT !.op = op, !.qrm = qrm, !.out = out]
    /\ UNCHANGED <<vars, obj, dbObjects, created>>

ObjNone == Applied("none", {}, none(call.in))
ObjOne == Applied("one", {}, one(call.in))
ObjMany == Applied("many", {}, many(call.in))
ObjOneOrNone == Applied("oneOrNone", {}, oneOrNone(call.in))
ObjManyOrNone == Applied("manyOrNone", {}, manyOrNone(call.in))
ObjAny == Applied("any", {}, any(call.in))
ObjResult == Applied("result", {}, result(call.in))
ObjFunc == \E qrm \in Masks : Applied("func", qrm, func(call.in, qrm))
ObjProc == Applied("proc", {}, proc(call.in))
ObjMap == Applied("map", {}, map(call.in))
ObjEach == Applied("each", {}, each(call.in))

ResultInit ==
    /\ NoInvocation
    /\ obj = NoObject
    /\ EmptyRegistry
    /\ call \in {[op |-> "", qrm |-> {}, in |-> c, out |-> Pending] : c \in Calls}

ResultNext ==
    \/ ObjNone
    \/ ObjOne
    \/ ObjMany
    \/ ObjOneOrNone
    \/ ObjManyOrNone
    \/ ObjAny
    \/ ObjResult
    \/ ObjFunc
    \/ ObjProc
    \/ ObjMap
    \/ ObjEach

ResultSpec == ResultInit /\ [][ResultNext]_<<vars, others>>

\* ------------------------------------------------------ protocol objects
\* extend(ctx, obj) builds a protocol object - the root Database object, the
\* object connect() resolves with, the object a task / transaction callback
\* receives - in three steps: the built-in operations are locked, the
\* extension hook runs, the object is frozen.  A property is known by who
\* set it; an assignment is logged with whether it took effect.
MaxWrites == 2   \* assignments the extension hook makes
MaxLater == 1    \* assignments made after extend() returned

ObjectKinds == {"root", "connect", "task"}

\* the properties each kind of object has when the hook runs: its own
\* query method and the operations extend() attaches, then what only that
\* kind has
builtIn(kind) ==
    {"query", "one", "task"} \cup
        (CASE kind = "root" -> {"connect"}
           [] kind = "connect" -> {"done"}
           [] OTHER -> {})

PropertyNames == {"query", "one", "task", "connect", "done", "myOp"}

\* the assignments a hook makes, in order
RECURSIVE Programs(_)
Programs(n) ==
    IF n = 0 THEN {<<>>}
    ELSE Programs(n - 1) \cup
         {Append(p, name) : p \in {q \in Programs(n - 1) : Len(q) = n - 1},
                            name \in PropertyNames}

\* obj with the built-in operations attached
attached(kind) ==
    [kind |-> kind,
     owner |-> [name \in builtIn(kind) |-> "builtin"],
     readOnly |-> {}, frozen |-> FALSE, log |-> <<>>]

\* utils.lock(obj, freeze): freeze the object, or make the properties it
\* has read-only
lock(o, freeze) ==
    IF freeze THEN [o EXCEPT !.frozen = TRUE]
    ELSE [o EXCEPT !.readOnly = DOMAIN o.owner]

\* obj[name] = value, done by `who`: it takes effect unless the object is
\* frozen or the property is read-only
assign(o, name, who) ==
    LET can == ~o.frozen /\ name \notin o.readOnly
    IN  [o EXCEPT !.owner = IF can
                            THEN [n \in DOMAIN o.owner \cup {name} |->
                                     IF n = name THEN who ELSE o.owner[n]]
                            ELSE @,
                  !.log = Append(@, [name |-> name, who |-> who, done |-> can])]

\* events.extend(options, obj, dc): the hook makes its assignments
RECURSIVE eventsExtend(_, _)
eventsExtend(o, program) ==
    IF program = <<>> THEN o
    ELSE eventsExtend(assign(o, Head(program), "hook"), Tail(program))

\* variant: the hook runs before the built-in operations are locked
extendHookFirst(kind, program) ==
    lock(lock(eventsExtend(attached(kind), program), FALSE), TRUE)

\* extend(ctx, obj): lock, extend, freeze
extend(kind, program) ==
    lock(eventsExtend(lock(attached(kind), FALSE), program), TRUE)

\* a protocol object is built
Extend ==
    /\ obj.kind = ""
    /\ \E kind \in ObjectKinds, program \in Programs(MaxWrites) :
          obj' = extend(kind, program)
    /\ UNCHANGED <<vars, call, dbObjects, created>>

\* later code - a task callback, the caller of connect - assigns a property
AssignLater ==
    /\ obj.kind # ""
    /\ Cardinality({i \in DOMAIN obj.log : obj.log[i].who = "later"}) < MaxLater
    /\ \E name \in PropertyNames : obj' = assign(obj, name, "later")
    /\ UNCHANGED <<vars, call, dbObjects, created>>

ExtendInit ==
    /\ NoInvocation
    /\ call = NoCall
    /\ obj = NoObject
    /\ EmptyRegistry

ExtendNext ==
    \/ Extend
    \/ AssignLater

ExtendSpec == ExtendInit /\ [][ExtendNext]_<<vars, others>>

\* ------------------------------------------------- duplicate registration
\* new Database(cn, dc, config): checkForDuplicates(cn, config) looks the
\* key JSON.stringify(cn) up in the process-wide dbObjects, then the object
\* is built.  A connection target is a string or an object; an object is
\* its properties in the order they were written.
MaxNew == 3      \* Database objects created in the process

Property(name, value) == [name |-> name, value |-> value]

Cn(form, props, cyclic) == [form |-> form, props |-> props, cyclic |-> cyclic]

\* a connection string; the same target as an object, its properties
\* written in two orders; the same with a function-valued property; an
\* object that refers to itself
Targets ==
    {Cn("string", <<Property("", "pg://a:1")>>, FALSE),
     Cn("object", <<Property("host", "a"), Property("port", "1")>>, FALSE),
     Cn("object", <<Property("port", "1"), Property("host", "a")>>, FALSE),
     Cn("object", <<Property("host", "a"), Property("port", "1"),
                    Property("onLost", "function")>>, FALSE),
     Cn("object", <<Property("host", "a"), Property("self", "object")>>, TRUE)}

\* JSON.stringify(cn) throws for a structure that refers to itself
serialisable(cn) == ~cn.cyclic

\* JSON.stringify(cn): the properties in their order, those with a
\* function for value left out
stringify(cn) ==
    [form |-> cn.form,
     text |-> SelectSeq(cn.props, LAMBDA p : p.value # "function")]

\* variant: a diagnostic for the first object of a key as well
checkForDuplicatesWarnsFirst(cn, noWarnings, registry) ==
    IF ~serialisable(cn)
    THEN [thrown |-> TRUE, warned |-> FALSE, registry |-> registry]
    ELSE [thrown |-> FALSE, warned |-> ~noWarnings,
          registry |-> registry \cup {stringify(cn)}]

\* checkForDuplicates(cn, config): what it leaves in dbObjects, whether it
\* warned, whether it threw
checkForDuplicates(cn, noWarnings, registry) ==
    IF ~serialisable(cn)
    THEN [thrown |-> TRUE, warned |-> FALSE, registry |-> registry]
    ELSE IF stringify(cn) \in registry
    THEN [thrown |-> FALSE, warned |-> ~noWarnings, registry |-> registry]
    ELSE [thrown |-> FALSE, warned |-> FALSE,
          registry |-> registry \cup {stringify(cn)}]

\* new Database(cn, dc, config): the check for duplicates, then the object
New ==
    /\ Len(created) < MaxNew
    /\ \E cn \in Targets, noWarnings \in BOOLEAN :
          LET checked == checkForDuplicates(cn, noWarnings, dbObjects)
          IN  /\ dbObjects' = checked.registry
              /\ created' = Append(created,
                                   [cn |-> cn, noWarnings |-> noWarnings,
                                    warned |-> checked.warned,
                                    made |-> ~checked.thrown])
    /\ UNCHANGED <<vars, call, obj>>

CreateInit ==
    /\ NoInvocation
    /\ call = NoCall
    /\ obj = NoObject
    /\ EmptyRegistry

CreateNext == New

CreateSpec == CreateInit /\ [][CreateNext]_<<vars, others>>

\* -------------------------------------------------------------- database
\* What the database makes of the statements a connection has carried: the
\* effects that are durable, and the open transaction as a stack of layers,
\* the transaction itself (name 0) and one layer per savepoint (named by
\* its level), each with the effects of the statements executed in it.
\* A statement counts once the driver answered it with success; the effect
\* of a user statement is its identity <<handle, number>>.
NoTx == [durable |-> {}, layers |-> <<>>]

effectsOf(layers, from, to) == UNION {layers[i].eff : i \in from..to}

\* the innermost savepoint of the given name, 0 when there is none
topNamed(layers, name) ==
    LET S == {i \in 2..Len(layers) : layers[i].name = name}
    IN  IF S = {} THEN 0 ELSE CHOOSE i \in S : \A j \in S : j <= i

execute(db, e) ==
    LET top == Len(db.layers)
        i == topNamed(db.layers, e.n)
    IN  IF e.ok # "ok" THEN db
        ELSE CASE e.op = "Q" ->
                    IF top = 0 THEN [db EXCEPT !.durable = @ \cup {<<e.f, e.n>>}]
                    ELSE [db EXCEPT !.layers[top].eff = @ \cup {<<e.f, e.n>>}]
               [] e.op = "BEGIN" ->
                    IF top = 0 THEN [db EXCEPT !.layers = <<[name |-> 0, eff |-> {}]>>]
                    ELSE db
               [] e.op = "COMMIT" ->
                    [durable |-> db.durable \cup effectsOf(db.layers, 1, top),
                     layers |-> <<>>]
               [] e.op = "ROLLBACK" -> [db EXCEPT !.layers = <<>>]
               [] e.op = "SAVEPOINT" ->
                    IF top = 0 THEN db
                    ELSE [db EXCEPT !.layers = Append(@, [name |-> e.n, eff |-> {}])]
               [] e.op = "RELEASE SAVEPOINT" ->
                    IF i = 0 THEN db
                    ELSE [db EXCEPT !.layers =
                            Append(SubSeq(@, 1, i - 2),
                                   [@[i - 1] EXCEPT !.eff = @ \cup effectsOf(db.layers, i, top)])]
               [] e.op = "ROLLBACK TO SAVEPOINT" ->
                    IF i = 0 THEN db
                    ELSE [db EXCEPT !.layers =
                            Append(SubSeq(@, 1, i - 1), [@[i] EXCEPT !.eff = {}])]
               [] OTHER -> db

\* the database session of connection c after its first n events
RECURSIVE dbAfter(_, _)
dbAfter(c, n) == IF n = 0 THEN NoTx ELSE execute(dbAfter(c, n - 1), trace[c][n])

\* the effects a session holds: durable ones and those of its open transaction
visible(db) == db.durable \cup effectsOf(db.layers, 1, Len(db.layers))

\* ------------------------------------------------------------ vocabulary
Settled(f) == frames[f].pc \in {"resolved", "rejected"}

\* the events of invocation f, on any connection, among the operations ops
EventsOf(f, ops) ==
    UNION {{<<c, i>> : i \in {j \in DOMAIN trace[c] :
                                 trace[c][j].f = f /\ trace[c][j].op \in ops}} :
           c \in Conns}
NEvents(f, ops) == Cardinality(EventsOf(f, ops))

\* the events of invocation f on connection c, in the order they happened
OwnEvents(f, c) == SelectSeq(trace[c], LAMBDA e : e.f = f)

\* some statement of f among ops was answered with `ok`
Answered(f, ops, ok) ==
    \E p \in EventsOf(f, ops) : trace[p[1]][p[2]].ok = ok

TopOps == {"BEGIN", "COMMIT", "ROLLBACK"}
NestedOps == {"SAVEPOINT", "RELEASE SAVEPOINT", "ROLLBACK TO SAVEPOINT"}
CommitOps == {"COMMIT", "RELEASE SAVEPOINT"}
RollbackOps == {"ROLLBACK", "ROLLBACK TO SAVEPOINT"}

\* a task / transaction that asked for a connection of its own
OwnTask(f) == frames[f].kind \in {"task", "tx"} /\ frames[f].own
\* a top-level transaction: on a connection of its own, at depth 0
TopTx(f) == frames[f].kind = "tx" /\ frames[f].own /\ frames[f].txLevel = 0
\* a task / transaction invoked on a context that held a connection
Reusing(f) == frames[f].kind \in {"task", "tx"} /\ frames[f].inherited # NoConn

\* f has an enclosing transaction on the connection it runs on
RECURSIVE InsideTx(_)
InsideTx(f) ==
    /\ Reusing(f)
    /\ frames[f].parent # Root
    /\ \/ frames[frames[f].parent].kind = "tx"
       \/ InsideTx(frames[f].parent)

\* the frame whose context asked for the connection f runs on
RECURSIVE Owner(_)
Owner(f) ==
    IF frames[f].inherited = NoConn \/ frames[f].parent = Root THEN f
    ELSE Owner(frames[f].parent)

\* the operations of a sequence of events
Ops(s) == [i \in DOMAIN s |-> s[i].op]

\* ------------------------------------------------------------------ C1
\* C1: over any interleaving of root queries, connect / done, tasks and
\* transactions, no connection is released more often than it was acquired,
\* and no invocation releases more often than it acquired.
C1_ReleasesNeverExceedAcquisitions ==
    /\ \A c \in Conns : released[c] <= acquired[c]
    /\ \A f \in Frames : NEvents(f, {"REL"}) <= NEvents(f, {"ACQ"})

\* a transaction and a task nested in it have both settled, the nested one
\* with a rejection, and the connection was acquired once and released once
C1_Witness ==
    \E f \in Frames :
        /\ Reusing(f) /\ frames[f].pc = "rejected" /\ frames[f].cbRes # ""
        /\ Owner(f) # f /\ Settled(Owner(f))
        /\ acquired[frames[f].conn] = 1
        /\ released[frames[f].conn] = 1

\* ------------------------------------------------------------------ C2
\* C2: a task / transaction that acquired a connection of its own holds it,
\* unreleased, until its future settles; it does settle; and when it has
\* settled the connection was released exactly once, whether the callback
\* resolved, rejected or threw.
C2_Held(f) ==
    (OwnTask(f) /\ frames[f].conn # NoConn /\ ~Settled(f)) =>
        /\ frames[f].db = frames[f].conn
        /\ NEvents(f, {"ACQ"}) = 1
        /\ NEvents(f, {"REL"}) = 0

C2_ReleasedOnce(f) ==
    (OwnTask(f) /\ frames[f].conn # NoConn /\ Settled(f)) =>
        /\ frames[f].db = NoConn
        /\ NEvents(f, {"ACQ"}) = 1
        /\ NEvents(f, {"REL"}) = 1
        /\ Ops(OwnEvents(f, frames[f].conn))[1] = "ACQ"

C2_OwnConnectionNeverLeaks ==
    /\ [](\A f \in Frames : C2_Held(f) /\ C2_ReleasedOnce(f))
    /\ \A f \in Frames : (OwnTask(f) /\ frames[f].conn # NoConn) ~> Settled(f)

\* a task with its own connection whose callback threw has settled and the
\* connection is back in the pool
C2_Witness ==
    \E f \in Frames :
        /\ OwnTask(f) /\ frames[f].kind = "task"
        /\ frames[f].res = "ThrownError"
        /\ Idle(frames[f].conn) /\ acquired[frames[f].conn] = 1

\* ------------------------------------------------------------------ C3
\* C3: when the COMMIT or ROLLBACK statement of a top-level transaction
\* fails, the future rejects and the connection was released exactly once.
C3_CloseFailureStillReleases ==
    \A f \in Frames :
        (TopTx(f) /\ Answered(f, {"COMMIT", "ROLLBACK"}, "fail")) =>
            /\ frames[f].pc = "rejected"
            /\ frames[f].db = NoConn
            /\ NEvents(f, {"ACQ"}) = 1
            /\ NEvents(f, {"REL"}) = 1
            /\ released[frames[f].conn] <= acquired[frames[f].conn]

\* the COMMIT of a top-level transaction failed
C3_Witness ==
    \E f \in Frames :
        /\ TopTx(f) /\ Answered(f, {"COMMIT"}, "fail")
        /\ frames[f].pc = "rejected" /\ NEvents(f, {"REL"}) = 1

\* ------------------------------------------------------------------ C4
\* C4: a query on the root handle has a context of its own, acquires one
\* connection, executes its statement on it and releases it exactly once,
\* not before the statement was answered and not after the future settled;
\* the future does settle: it resolves with the data when the statement
\* succeeded and rejects with the driver's reason when it failed.
C4_Query(f) ==
    LET fr == frames[f]
        ev == OwnEvents(f, fr.conn)
    IN  (fr.kind = "query" /\ fr.conn # NoConn) =>
            /\ fr.parent = Root /\ fr.inherited = NoConn
            /\ NEvents(f, {"ACQ", "Q", "REL"}) = Len(ev)
            /\ IF Settled(f)
               THEN /\ Ops(ev) = <<"ACQ", "Q", "REL">>
                    /\ fr.db = NoConn
                    /\ ev[2].ok = "ok" => (fr.pc = "resolved" /\ fr.res = "data")
                    /\ ev[2].ok = "fail" => (fr.pc = "rejected" /\ fr.res = "DriverError")
                    /\ ev[2].ok # "?"
               ELSE /\ Ops(ev) = <<"ACQ", "Q">>
                    /\ fr.db = fr.conn
                    /\ ev[2].ok = "?"

C4_RootQueryAcquiresAndReleasesOnce ==
    /\ [](\A f \in Frames : C4_Query(f))
    /\ \A f \in Frames : (frames[f].kind = "query") ~> Settled(f)

\* one root query resolved and another one was rejected by the driver, each
\* after releasing its connection
C4_Witness ==
    \E f, g \in Frames :
        /\ frames[f].kind = "query" /\ frames[f].pc = "resolved"
        /\ frames[g].kind = "query" /\ frames[g].res = "DriverError"
        /\ NEvents(f, {"REL"}) = 1 /\ NEvents(g, {"REL"}) = 1

\* ------------------------------------------------------------------ C5
\* C5: no step of a task / transaction that was invoked on a context holding
\* a connection acquires or releases anything, unbinds its connection, or
\* touches another invocation: the connection stays with its outer owner.
C5_Step(f) ==
    (/\ frames'[f].kind \in {"task", "tx"}
     /\ frames'[f].inherited # NoConn
     /\ frames'[f] # frames[f]) =>
        /\ acquired' = acquired
        /\ released' = released
        /\ frames'[f].db = frames'[f].inherited
        /\ \A g \in Frames \ {f} : frames'[g] = frames[g]
        /\ \A c \in Conns : \A i \in DOMAIN trace'[c] :
              trace'[c][i].f = f => trace'[c][i].op \notin {"ACQ", "REL"}

C5_ReuseNeitherAcquiresNorReleases == [][\A f \in Frames : C5_Step(f)]_vars

\* a nested transaction has run to its end and the connection is still bound
\* to the invocation that acquired it, never released
C5_Witness ==
    \E f \in Frames :
        /\ Reusing(f) /\ Settled(f) /\ frames[f].cbRes # ""
        /\ Owner(f) # f
        /\ frames[Owner(f)].db = frames[f].inherited
        /\ acquired[frames[f].inherited] = 1
        /\ released[frames[f].inherited] = 0

\* ------------------------------------------------------------------ C6
\* C6: every statement issued through a task / transaction object goes to
\* the connection bound to the task at entry (the inherited one, or the one
\* acquired for it), and the only acquisition a task ever causes is that one.
C6_Handle(h) ==
    LET fr == frames[h]
    IN  fr.kind \in {"task", "tx"} =>
            /\ \A p \in EventsOf(h, {"Q"} \cup TopOps \cup NestedOps) : p[1] = fr.conn
            /\ NEvents(h, {"Q"}) = fr.nq
            /\ NEvents(h, {"ACQ"}) = IF fr.own /\ fr.conn # NoConn THEN 1 ELSE 0
            /\ Reusing(h) => fr.conn = fr.inherited
            /\ fr.nq > 0 => fr.conn # NoConn
            /\ (fr.own /\ fr.conn # NoConn) => OwnEvents(h, fr.conn)[1].op = "ACQ"

C6_OneConnectionPerTask ==
    /\ \A h \in Frames : C6_Handle(h)
    /\ \A c \in Conns :
          acquired[c] = Cardinality({i \in DOMAIN trace[c] : trace[c][i].op = "ACQ"})

\* two statements went through one task object that has a connection of its
\* own, both on that connection, and the pool handed out one connection
C6_Witness ==
    \E h \in Frames :
        /\ OwnTask(h) /\ frames[h].nq = 2
        /\ Cardinality({i \in DOMAIN trace[frames[h].conn] :
                           trace[frames[h].conn][i].f = h
                           /\ trace[frames[h].conn][i].op = "Q"}) = 2
        /\ \A c \in Conns : acquired[c] = IF c = frames[h].conn THEN 1 ELSE 0

\* ------------------------------------------------------------------ C7
\* the events of a top-level transaction whose callback resolved: the
\* acquisition, BEGIN directly after it, the statements issued until the
\* callback resolved in order, then COMMIT; no other control statement.
C7_Sequence(f) ==
    LET fr == frames[f]
        ev == OwnEvents(f, fr.conn)
        k == fr.nqCb
    IN  /\ Len(ev) >= k + 3
        /\ NEvents(f, {"ACQ", "REL", "Q"} \cup TopOps \cup NestedOps) = Len(ev)
        /\ ev[1].op = "ACQ" /\ ev[2].op = "BEGIN"
        /\ \E i \in DOMAIN trace[fr.conn] :
              /\ trace[fr.conn][i] = ev[1]
              /\ trace[fr.conn][i + 1] = ev[2]
        /\ \A i \in 1..k : ev[2 + i].op = "Q" /\ ev[2 + i].n = i
        /\ ev[k + 3].op = "COMMIT"
        /\ NEvents(f, {"BEGIN"}) = 1
        /\ NEvents(f, {"COMMIT"}) = 1
        /\ NEvents(f, {"ROLLBACK"} \cup NestedOps) = 0

\* C7 as stated: for a top-level transaction whose callback resolves, the
\* statements are BEGIN first, the callback's statements in order, COMMIT
\* last, with one COMMIT and no ROLLBACK, and the future resolves with the
\* callback's value.
C7_AsStated ==
    \A f \in Frames :
        (TopTx(f) /\ frames[f].cbRes = "data") =>
            /\ C7_Sequence(f)
            /\ \A p \in EventsOf(f, {"Q"}) :
                  \A q \in EventsOf(f, {"COMMIT"}) : p[2] < q[2]
            /\ Settled(f) => (frames[f].pc = "resolved" /\ frames[f].res = "data")

\* C7 (amended): for a top-level transaction whose callback resolves, BEGIN
\* comes first, then the statements issued until the callback resolved, in
\* order, then COMMIT, with one COMMIT and no ROLLBACK; a statement issued
\* through the transaction object after the callback resolved follows
\* COMMIT; the future resolves with the callback's value when COMMIT
\* succeeds and rejects when COMMIT fails.
C7_CommitAfterResolvedCallback ==
    \A f \in Frames :
        (TopTx(f) /\ frames[f].cbRes = "data") =>
            /\ C7_Sequence(f)
            /\ \A p \in EventsOf(f, {"Q"}) :
                  \A q \in EventsOf(f, {"COMMIT"}) :
                      p[2] < q[2] <=> trace[p[1]][p[2]].n <= frames[f].nqCb
            /\ (Settled(f) /\ Answered(f, {"COMMIT"}, "ok")) =>
                  (frames[f].pc = "resolved" /\ frames[f].res = "data")
            /\ (Settled(f) /\ Answered(f, {"COMMIT"}, "fail")) =>
                  frames[f].pc = "rejected"
            /\ Settled(f) <=> ~Answered(f, {"COMMIT"}, "?")

\* a top-level transaction has resolved with the callback's value after
\* BEGIN, two statements and a successful COMMIT
C7_Witness ==
    \E f \in Frames :
        /\ TopTx(f) /\ frames[f].pc = "resolved" /\ frames[f].res = "data"
        /\ Ops(OwnEvents(f, frames[f].conn))
              = <<"ACQ", "BEGIN", "Q", "Q", "COMMIT", "REL">>

\* ------------------------------------------------------------------ C8
\* C8: a top-level transaction whose callback returned a rejected future
\* issues one ROLLBACK after its BEGIN and no COMMIT, and its future rejects
\* with the callback's own reason.
C8_RollbackOnRejection ==
    \A f \in Frames :
        (TopTx(f) /\ frames[f].cbRes = "RejectedError") =>
            /\ NEvents(f, {"BEGIN"}) = 1
            /\ NEvents(f, {"ROLLBACK"}) = 1
            /\ NEvents(f, {"COMMIT"} \cup NestedOps) = 0
            /\ \A p \in EventsOf(f, {"BEGIN"}) :
                  \A q \in EventsOf(f, {"ROLLBACK"}) : p[1] = q[1] /\ p[2] < q[2]
            /\ frames[f].pc \in {"rollback", "rejected"}
            /\ Settled(f) => frames[f].res = "RejectedError"
            /\ Settled(f) <=> ~Answered(f, {"ROLLBACK"}, "?")

\* a top-level transaction was rolled back and rejected with the reason its
\* callback gave
C8_Witness ==
    \E f \in Frames :
        /\ TopTx(f) /\ frames[f].pc = "rejected"
        /\ frames[f].res = "RejectedError"
        /\ Answered(f, {"ROLLBACK"}, "ok")

\* ------------------------------------------------------------------ C9
\* C9: when the callback throws, the task / transaction still returns a
\* future, which rejects with the thrown error; a transaction issues the
\* rollback statement of its level, once, and no commit, as for a rejection.
C9_ThrowBecomesRejection ==
    \A f \in Frames :
        LET fr == frames[f]
        IN  (fr.kind \in {"task", "tx"} /\ fr.cbRes = "ThrownError") =>
                /\ fr.kind = "task" => fr.pc = "rejected"
                /\ fr.pc \in {"rollback", "rejected"}
                /\ Settled(f) => fr.res = "ThrownError"
                /\ NEvents(f, CommitOps) = 0
                /\ NEvents(f, RollbackOps) = IF fr.kind = "tx" THEN 1 ELSE 0
                /\ NEvents(f, {IF fr.txLevel > 0 THEN "ROLLBACK TO SAVEPOINT"
                               ELSE "ROLLBACK"}) = IF fr.kind = "tx" THEN 1 ELSE 0

\* the callback of a transaction threw: the transaction was rolled back and
\* its future rejected with the thrown error
C9_Witness ==
    \E f \in Frames :
        /\ frames[f].kind = "tx" /\ frames[f].cbRes = "ThrownError"
        /\ frames[f].pc = "rejected" /\ frames[f].res = "ThrownError"
        /\ NEvents(f, {"ROLLBACK"}) = 1

\* ----------------------------------------------------------------- C10
\* the transaction got as far as task.exec (its callback was a function)
Entered(f) == ~(frames[f].pc = "rejected" /\ frames[f].res = "TypeError")

\* C10: BEGIN, COMMIT and ROLLBACK are issued at depth 0 only and the
\* savepoint statements at positive depth only; a transaction invoked inside
\* a transaction on the same connection is at positive depth: it issues no
\* BEGIN / COMMIT / ROLLBACK, one SAVEPOINT on entry, and on exit one
\* RELEASE SAVEPOINT (callback resolved) or ROLLBACK TO SAVEPOINT (else).
C10_Tx(f) ==
    LET fr == frames[f]
    IN  fr.kind = "tx" =>
            /\ NEvents(f, TopOps) > 0 => fr.txLevel = 0
            /\ NEvents(f, NestedOps) > 0 => fr.txLevel > 0
            /\ InsideTx(f) =>
                  /\ fr.txLevel > 0
                  /\ NEvents(f, TopOps) = 0
                  /\ NEvents(f, {"SAVEPOINT"}) = IF Entered(f) THEN 1 ELSE 0
                  /\ NEvents(f, {"RELEASE SAVEPOINT"})
                        = IF fr.cbRes = "data" THEN 1 ELSE 0
                  /\ NEvents(f, {"ROLLBACK TO SAVEPOINT"})
                        = IF fr.cbRes \notin {"", "data"} THEN 1 ELSE 0
                  /\ \A p \in EventsOf(f, {"SAVEPOINT"}) :
                        \A q \in EventsOf(f, NestedOps \ {"SAVEPOINT"}) :
                            p[1] = q[1] /\ p[2] < q[2]

C10_NestedTxUsesSavepoints == \A f \in Frames : C10_Tx(f)

\* a transaction nested in a running transaction has released its savepoint;
\* the connection saw one BEGIN, one SAVEPOINT and no COMMIT yet
C10_Witness ==
    \E f \in Frames :
        /\ frames[f].kind = "tx" /\ InsideTx(f) /\ frames[f].pc = "resolved"
        /\ Ops(trace[frames[f].conn])
              = <<"ACQ", "BEGIN", "SAVEPOINT", "RELEASE SAVEPOINT">>

\* ----------------------------------------------------------------- C11
\* the closing control statements invocation f has issued
NClosing(f) == NEvents(f, CommitOps \cup RollbackOps)

\* the position on connection c of the first event of f among ops, 0 if none
first(c, f, ops) ==
    LET S == {i \in DOMAIN trace[c] : trace[c][i].f = f /\ trace[c][i].op \in ops}
    IN  IF S = {} THEN 0 ELSE CHOOSE i \in S : \A j \in S : i <= j

\* the statements a transaction opens and closes with, at any depth
OpeningOps == {"BEGIN", "SAVEPOINT"}
ClosingOps == CommitOps \cup RollbackOps

\* g is a transaction on the connection of the top-level transaction f whose
\* callback failed and whose rollback the database executed before f, whose
\* callback resolved, issued its closing statement
C11_Case(f, g) ==
    LET c == frames[f].conn
        r == first(c, g, ClosingOps)
        m == first(c, f, ClosingOps)
    IN  /\ f # g /\ TopTx(f) /\ c # NoConn
        /\ frames[g].kind = "tx" /\ Reusing(g) /\ Owner(g) = f
        /\ frames[g].cbRes \notin {"", "data"}
        /\ frames[f].cbRes = "data"
        /\ r > 0 /\ trace[c][r].ok = "ok"
        /\ m > r

\* the user statements the database executed on c at positions from..to
executedIn(c, from, to) ==
    {i \in from..to : trace[c][i].op = "Q" /\ trace[c][i].ok = "ok"}

effect(c, i) == <<trace[c][i].f, trace[c][i].n>>

\* C11 as stated: the inner transaction failed and was rolled back, the outer
\* callback resolved and the outer COMMIT succeeded; then of the statements
\* executed inside the outer transaction exactly those of the inner one are
\* discarded, all others are durable.
C11_AsStated ==
    \A f, g \in Frames :
        LET c == frames[f].conn
            b == first(c, f, OpeningOps)
            m == first(c, f, ClosingOps)
        IN  (C11_Case(f, g) /\ trace[c][m].ok = "ok") =>
                \A i \in executedIn(c, b + 1, m - 1) :
                    (effect(c, i) \in dbAfter(c, m).durable) <=> (trace[c][i].f # g)

\* between the outer BEGIN and its closing statement only invocations on the
\* outer's connection context issue statements, and up to the inner's
\* rollback no other of them issues a control statement
C11_Alone(f, g) ==
    LET c == frames[f].conn
        b == first(c, f, OpeningOps)
        s == first(c, g, OpeningOps)
        r == first(c, g, ClosingOps)
        m == first(c, f, ClosingOps)
    IN  /\ \A i \in (b + 1)..(m - 1) : Owner(trace[c][i].f) = f
        /\ \A i \in (b + 1)..(r - 1) : i # s => trace[c][i].op = "Q"

\* C11 (amended): inner transaction g (depth > 0) of the top-level
\* transaction f failed and its rollback succeeded, f's callback resolved,
\* and nothing else issued control statements meanwhile.  Then g opened with
\* SAVEPOINT and closed with ROLLBACK TO SAVEPOINT, f closes with exactly one
\* COMMIT; after g's rollback every statement executed in f before g's
\* savepoint is still in effect, and every statement executed between the
\* savepoint and the rollback - by g or by anyone else on the connection -
\* is discarded; once the COMMIT has succeeded the former are durable and
\* the latter are not.
C11_Pair(f, g) ==
    LET c == frames[f].conn
        b == first(c, f, OpeningOps)
        s == first(c, g, OpeningOps)
        r == first(c, g, ClosingOps)
        m == first(c, f, ClosingOps)
    IN  (C11_Case(f, g) /\ C11_Alone(f, g)) =>
            /\ 0 < b /\ b < s /\ s < r
            /\ trace[c][s].op = "SAVEPOINT"
            /\ trace[c][r].op = "ROLLBACK TO SAVEPOINT"
            /\ trace[c][m].op = "COMMIT"
            /\ NClosing(f) = 1
            /\ \A i \in executedIn(c, b + 1, s - 1) :
                  effect(c, i) \in visible(dbAfter(c, r))
            /\ \A i \in executedIn(c, s + 1, r - 1) :
                  effect(c, i) \notin visible(dbAfter(c, r))
            /\ trace[c][m].ok = "ok" =>
                  /\ \A i \in executedIn(c, b + 1, s - 1) :
                        effect(c, i) \in dbAfter(c, m).durable
                  /\ \A i \in executedIn(c, s + 1, r - 1) :
                        effect(c, i) \notin dbAfter(c, m).durable

C11_InnerRollbackKeepsOuter == \A f, g \in Frames : C11_Pair(f, g)

\* the outer transaction executed a statement, the inner one executed a
\* statement and was rolled back, the outer COMMIT succeeded and the
\* connection went back: only the outer's statement is durable
C11_Witness ==
    \E f, g \in Frames :
        LET c == frames[f].conn
        IN  /\ C11_Case(f, g) /\ C11_Alone(f, g)
            /\ Ops(trace[c]) = <<"ACQ", "BEGIN", "Q", "SAVEPOINT", "Q",
                                 "ROLLBACK TO SAVEPOINT", "COMMIT", "REL">>
            /\ trace[c][3].f = f /\ trace[c][5].f = g
            /\ \A i \in DOMAIN trace[c] : trace[c][i].ok = "ok"
            /\ dbAfter(c, Len(trace[c])) = [durable |-> {<<f, 1>>}, layers |-> <<>>]

\* ----------------------------------------------------------------- C12
\* the transaction issued its opening statement
Opened(f) == NEvents(f, {"BEGIN", "SAVEPOINT"}) > 0

\* C12 as stated: every transaction entry, whatever the outcome of its
\* callback and of its control statements, has issued exactly one closing
\* control statement when it is over.
C12_AsStated ==
    \A f \in Frames :
        (frames[f].kind = "tx" /\ Opened(f) /\ Settled(f)) => NClosing(f) = 1

\* C12 (amended): a transaction whose opening statement succeeded issues
\* exactly one closing control statement, when its callback settles: the
\* commit-type one of its depth when the callback resolved, the
\* rollback-type one of its depth otherwise, whatever the outcome of the
\* closing statement; a transaction whose opening statement failed never
\* runs its callback, issues no closing statement and rejects.
C12_Tx(f) ==
    LET fr == frames[f]
        commitOp == IF fr.txLevel > 0 THEN "RELEASE SAVEPOINT" ELSE "COMMIT"
        rollbackOp == IF fr.txLevel > 0 THEN "ROLLBACK TO SAVEPOINT" ELSE "ROLLBACK"
    IN  fr.kind = "tx" =>
            /\ NEvents(f, {"BEGIN", "SAVEPOINT"}) <= 1
            /\ fr.cbRun <=> Answered(f, {"BEGIN", "SAVEPOINT"}, "ok")
            /\ fr.cbRes = "" => NClosing(f) = 0
            /\ fr.cbRes = "data" =>
                  NEvents(f, {commitOp}) = 1 /\ NClosing(f) = 1
            /\ fr.cbRes \notin {"", "data"} =>
                  NEvents(f, {rollbackOp}) = 1 /\ NClosing(f) = 1
            /\ (fr.cbRun /\ Settled(f)) =>
                  NClosing(f) = 1 /\ ~Answered(f, CommitOps \cup RollbackOps, "?")
            /\ Answered(f, {"BEGIN", "SAVEPOINT"}, "fail") =>
                  frames[f].pc = "rejected" /\ ~fr.cbRun

C12_OneClosingStatement == \A f \in Frames : C12_Tx(f)

\* a nested transaction is over after its one closing statement, the release
\* of its savepoint, failed
C12_Witness ==
    \E f \in Frames :
        /\ frames[f].kind = "tx" /\ frames[f].txLevel > 0 /\ Settled(f)
        /\ Answered(f, {"RELEASE SAVEPOINT"}, "fail")
        /\ NClosing(f) = 1

\* ----------------------------------------------------------------- C13
\* C13: a plain task, top-level or nested, whatever its callback's outcome,
\* issues no transaction-control statement: its events are the acquisition
\* and release of its own connection and the statements sent through its
\* task object.
C13_TaskIssuesNoControl ==
    \A f \in Frames :
        frames[f].kind = "task" =>
            /\ NEvents(f, TopOps \cup NestedOps) = 0
            /\ NEvents(f, {"Q"}) = frames[f].nq
            /\ \A c \in Conns : \A i \in DOMAIN trace[c] :
                  trace[c][i].f = f => trace[c][i].op \in {"ACQ", "Q", "REL"}
            /\ (frames[f].own /\ Settled(f) /\ frames[f].conn # NoConn) =>
                  LET ops == Ops(OwnEvents(f, frames[f].conn))
                  IN  /\ ops[1] = "ACQ" /\ ops[Len(ops)] = "REL"
                      /\ \A i \in 2..(Len(ops) - 1) : ops[i] = "Q"

\* a top-level task and a task nested in it are over, the nested one with a
\* rejection; the connection saw one statement of each and nothing else
C13_Witness ==
    \E f, g \in Frames :
        /\ frames[f].kind = "task" /\ frames[f].own /\ frames[f].pc = "resolved"
        /\ frames[g].kind = "task" /\ frames[g].parent = f
        /\ frames[g].res = "RejectedError"
        /\ frames[f].nq = 1 /\ frames[g].nq = 1
        /\ Ops(trace[frames[f].conn]) = <<"ACQ", "Q", "Q", "REL">>

C18_Rejected(f) ==
    (frames[f].kind \in {"task", "tx"} /\ frames[f].cb # "function") =>
        /\ frames[f].pc = "rejected" /\ frames[f].res = "TypeError"
        /\ ~frames[f].own /\ ~frames[f].cbRun /\ frames[f].nq = 0
        /\ NEvents(f, {"ACQ", "REL", "Q"} \cup TopOps \cup NestedOps) = 0

C18_Call(f) ==
    (frames[f].pc = "unused" /\ frames'[f].cb \notin {"", "function"}) =>
        /\ UNCHANGED <<acquired, released, trace>>
        /\ \A g \in Frames \ {f} : frames'[g] = frames[g]

C18_InvalidCallbackTouchesNothing ==
    /\ [](\A f \in Frames : C18_Rejected(f))
    /\ [][\A f \in Frames : C18_Call(f)]_vars

\* tx was called with a tag and an object on a transaction object that holds
\* a connection: the transaction object is as it was
C18_Witness ==
    \E f \in Frames :
        /\ frames[f].kind = "tx" /\ frames[f].cb = "object"
        /\ frames[f].res = "TypeError" /\ frames[f].parent # Root
        /\ frames[frames[f].parent].db # NoConn
        /\ frames[frames[f].parent].txLevel = 0
        /\ frames[f].inherited # NoConn

\* ----------------------------------------------------------------- C19
\* C19: when the pool / driver fails to hand out a connection, connect, a
\* root query and a root task / tx reject with the error of the pool; the
\* callback is not called, no statement is issued, and nothing is released.
C19_AcquisitionFailure ==
    /\ \A f \in Frames :
          (frames[f].pc = "connecting" \/ frames[f].res = "PoolError") =>
              /\ frames[f].own /\ ~frames[f].cbRun
              /\ frames[f].db = NoConn /\ frames[f].conn = NoConn
              /\ NEvents(f, {"ACQ", "REL", "Q"} \cup TopOps \cup NestedOps) = 0
              /\ frames[f].res = "PoolError" => frames[f].pc = "rejected"
    /\ \A f \in Frames :
          (frames[f].own /\ frames[f].conn = NoConn /\ Settled(f)) =>
              frames[f].res = "PoolError"

\* the pool refused a connection to a root transaction
C19_Witness ==
    \E f \in Frames :
        /\ frames[f].kind = "tx" /\ frames[f].res = "PoolError"
        /\ frames[f].pc = "rejected"
        /\ \A c \in Conns : released[c] = 0

\* ----------------------------------------------------------------- C15
\* a handle returned by connect whose connection done() has released
ReleasedHandle(h) ==
    /\ frames[h].kind = "connect" /\ frames[h].pc = "resolved"
    /\ frames[h].db = NoConn

\* a call of a query-shaped method on a released connect handle: the only
\* steps that change such a handle without counting as a call of done()
C15_Call(h) ==
    /\ ReleasedHandle(h)
    /\ frames'[h] # frames[h]
    /\ frames'[h].nDone = frames[h].nDone

\* C15 as stated: a query-shaped method called on a released connect handle
\* returns a future rejected with a usage error.
C15_AsStated ==
    \A h \in Frames :
        (frames[h].kind = "connect" /\ frames[h].failed = "query") =>
            frames[h].how = "reject"

\* C15 (amended): a query-shaped method called on a released connect handle
\* fails at once by throwing a usage error synchronously; nothing is
\* acquired or released, no statement is sent, and every statement of the
\* handle was sent before the release.
C15_NoStatementAfterDone ==
    \A h \in Frames :
        frames[h].kind = "connect" =>
            /\ NEvents(h, {"Q"}) = frames[h].nq
            /\ \A p \in EventsOf(h, {"Q"}) : \A q \in EventsOf(h, {"REL"}) :
                  p[1] = q[1] /\ p[2] < q[2]
            /\ frames[h].failed # "" =>
                  (ReleasedHandle(h) /\ frames[h].how = "throw")

C15_UsageErrorOnReleasedHandle ==
    /\ []C15_NoStatementAfterDone
    /\ [][\A h \in Frames :
            C15_Call(h) =>
                /\ frames'[h] = [frames[h] EXCEPT !.failed = "query", !.how = "throw"]
                /\ UNCHANGED <<acquired, released, trace, nf>>]_vars

\* a query-shaped method was called on a handle after done(): it threw, and
\* the connection saw the acquisition and the release only
C15_Witness ==
    \E h \in Frames :
        /\ ReleasedHandle(h) /\ frames[h].failed = "query"
        /\ frames[h].how = "throw" /\ frames[h].nDone = 1
        /\ Ops(trace[frames[h].conn]) = <<"ACQ", "REL">>
        /\ acquired[frames[h].conn] = 1

\* ----------------------------------------------------------------- C16
\* C16 as stated: task / tx invoked on a handle whose context is not connected
\* (a connect handle after done(), a task object after its task is over)
\* reject at once: no connection is asked for and the callback is not run.
C16_AsStated ==
    \A f \in Frames :
        (/\ frames[f].kind \in {"task", "tx"}
         /\ frames[f].parent # Root
         /\ frames[f].inherited = NoConn) =>
            /\ frames[f].pc = "rejected"
            /\ ~frames[f].own
            /\ ~frames[f].cbRun
            /\ NEvents(f, {"ACQ"}) = 0

\* ----------------------------------------------------------------- C17
\* C17: the first done() on a connect handle releases its connection; every
\* later done() throws an error and releases nothing, so the connection is
\* released exactly once.
C17_Handle(h) ==
    frames[h].kind = "connect" =>
        /\ NEvents(h, {"REL"}) = IF frames[h].nDone > 0 THEN 1 ELSE 0
        /\ frames[h].nDone > 0 => frames[h].db = NoConn
        /\ (frames[h].pc = "resolved" /\ frames[h].nDone = 0) =>
              frames[h].db = frames[h].conn
        /\ frames[h].failed = "done" => frames[h].nDone > 1

C17_Done(h) ==
    (frames[h].kind = "connect" /\ frames'[h].nDone = frames[h].nDone + 1) =>
        IF frames[h].nDone = 0
        THEN /\ released' = [released EXCEPT ![frames[h].conn] = @ + 1]
             /\ frames'[h].db = NoConn
             /\ frames'[h].failed = frames[h].failed
        ELSE /\ UNCHANGED <<acquired, released, trace>>
             /\ frames'[h].failed = "done" /\ frames'[h].how = "throw"

C17_SecondDoneFailsLoudly ==
    /\ [](\A h \in Frames : C17_Handle(h))
    /\ [][\A h \in Frames : C17_Done(h)]_vars

\* done() was called twice on a handle: the second call threw, and the
\* connection was released once
C17_Witness ==
    \E h \in Frames :
        /\ frames[h].kind = "connect" /\ frames[h].nDone = 2
        /\ frames[h].failed = "done" /\ frames[h].how = "throw"
        /\ acquired[frames[h].conn] = 1 /\ released[frames[h].conn] = 1

\* ----------------------------------------------------------------- C20
\* a statement sent through the transaction object f while its callback ran
\* was failed by the driver
FailedInCallback(f) ==
    \E p \in EventsOf(f, {"Q"}) :
        /\ trace[p[1]][p[2]].ok = "fail"
        /\ trace[p[1]][p[2]].n <= frames[f].nqCb

\* C20 as stated: when a statement issued inside a transaction callback
\* fails, the transaction is rolled back, no COMMIT is issued, and the
\* driver's error reaches the caller unchanged.
C20_AsStated ==
    \A f \in Frames :
        (frames[f].kind = "tx" /\ frames[f].cbRes # "" /\ FailedInCallback(f)) =>
            /\ NEvents(f, RollbackOps) = 1
            /\ NEvents(f, CommitOps) = 0
            /\ Settled(f) => (frames[f].pc = "rejected" /\ frames[f].res = "DriverError")

\* C20 (amended): when a statement issued inside a transaction callback
\* fails and the callback's future rejects with the driver's error, the
\* rollback statement of the transaction's depth is issued once, no commit
\* is issued, and the future of tx rejects with the driver's error; the
\* failure of a statement alone triggers no control statement.
C20_Tx(f) ==
    LET fr == frames[f]
    IN  (fr.kind = "tx" /\ fr.cbRes = "DriverError") =>
            /\ FailedInCallback(f)
            /\ NEvents(f, {IF fr.txLevel > 0 THEN "ROLLBACK TO SAVEPOINT"
                           ELSE "ROLLBACK"}) = 1
            /\ NEvents(f, RollbackOps) = 1
            /\ NEvents(f, CommitOps) = 0
            /\ fr.pc \in {"rollback", "rejected"}
            /\ Settled(f) => fr.res = "DriverError"

C20_StatementFailureRollsBack ==
    \A f \in Frames :
        /\ C20_Tx(f)
        /\ (frames[f].kind = "tx" /\ frames[f].qErr # "" /\ frames[f].cbRes = "") =>
              NEvents(f, CommitOps \cup RollbackOps) = 0

\* a statement of a top-level transaction failed, the callback passed the
\* failure on, and the transaction was rolled back and rejected with it
C20_Witness ==
    \E f \in Frames :
        /\ TopTx(f) /\ frames[f].cbRes = "DriverError"
        /\ frames[f].pc = "rejected" /\ frames[f].res = "DriverError"
        /\ Ops(OwnEvents(f, frames[f].conn))
              = <<"ACQ", "BEGIN", "Q", "ROLLBACK", "REL">>

\* ----------------------------------------------------------------- C30
\* the contexts that reference connection c
Referencing(c) == {h \in Frames : frames[h].db = c}

\* C30 as stated: a bound connection is referenced by exactly one context;
\* the clone made at a nested entry never holds the parent's connection.
C30_AsStated ==
    \A c \in Conns : Cardinality(Referencing(c)) <= 1

\* the entry of a task / transaction: the clone takes the connection of the
\* context it is invoked on; when that context is connected the clone is
\* bound to the same connection and asks for none
C30_Entry ==
    \A f \in Frames :
        (frames[f].pc = "unused" /\ frames'[f].kind \in {"task", "tx"}) =>
            LET ctx == CtxOf(frames'[f].parent)
            IN  /\ frames'[f].inherited = ctx.db
                /\ ctx.db # NoConn => (frames'[f].db = ctx.db /\ ~frames'[f].own)
                /\ frames'[f].txLevel =
                      IF frames'[f].kind = "tx" THEN
                          (IF ctx.txLevel >= 0 THEN ctx.txLevel + 1 ELSE 0)
                      ELSE ctx.txLevel

\* a connection is bound by acquisition to at most one context at a time;
\* every other context that references it is a clone made at a nested
\* entry, still bound to the connection it inherited
C30_Bound ==
    /\ \A c \in Conns :
          Cardinality({h \in Referencing(c) : frames[h].own}) <= 1
    /\ \A h \in Frames :
          (frames[h].db # NoConn /\ ~frames[h].own) =>
              /\ Reusing(h)
              /\ frames[h].db = frames[h].inherited
              /\ frames[Owner(h)].own /\ frames[Owner(h)].conn = frames[h].db

\* C30 (amended): each bound physical connection is bound by acquisition to
\* exactly one connection context; the clone created at a nested task /
\* transaction entry inherits the connection binding and the nesting depth
\* of the context it is made from, so the contexts nested under the
\* acquiring one reference the same connection and acquire none.
C30_ClonesShareTheConnection == []C30_Bound /\ [][C30_Entry]_vars

\* a nested task runs on the connection its parent acquired and still holds
C30_Witness ==
    \E f, g \in Frames :
        /\ f # g /\ frames[g].parent = f
        /\ frames[f].own /\ frames[f].db # NoConn
        /\ ~frames[g].own /\ frames[g].db = frames[f].db
        /\ frames[g].kind = "task" /\ frames[g].pc = "running"
        /\ acquired[frames[f].db] = 1 /\ released[frames[f].db] = 0

\* ------------------------------------------------------------ C21 .. C26
\* the call that was made: its row count, whether the driver returned rows,
\* whether a transformation function was passed
N == Len(call.in.rows)
Returned(op) == call.op = op /\ ~call.in.fails
Transforming == call.in.cb.type = "function"
Resolved == call.out.future.state = "resolved"
Rejected == call.out.future.state = "rejected"
Settlement == call.out.future.value

CardinalityErrors ==
    {"No data returned from the query.", "No return data was expected.",
     "Multiple rows were not expected."}

\* C21: for every row count n, one resolves if and only if n = 1, and then
\* with the single row; for n = 0 and for n > 1 it rejects with a
\* cardinality error.
C21_OneResolvesIffOneRow ==
    Returned("one") =>
        /\ ~Transforming =>
              /\ Resolved <=> N = 1
              /\ Resolved => Settlement = row(call.in.rows[1])
        /\ ~call.in.cb.throws => (Resolved <=> N = 1)
        /\ N = 0 => Rejected /\ Settlement = failure("No data returned from the query.")
        /\ N > 1 => Rejected /\ Settlement = failure("Multiple rows were not expected.")
        /\ Rejected /\ ~Transforming => Settlement.t \in CardinalityErrors

\* one was called for a statement that returned the most rows, and rejected
C21_Witness ==
    /\ Returned("one") /\ N = MaxRows
    /\ Rejected /\ Settlement.t \in CardinalityErrors

\* C22: for every row count n, none resolves with null if and only if
\* n = 0, and rejects with a cardinality error if and only if n >= 1.
C22_NoneResolvesIffNoRow ==
    Returned("none") =>
        /\ (Resolved /\ Settlement = null) <=> N = 0
        /\ (Rejected /\ Settlement = failure("No return data was expected.")) <=> N >= 1
        /\ Resolved \/ Rejected

\* none was called for a statement that returned no row, and resolved
C22_Witness ==
    Returned("none") /\ N = 0 /\ Resolved /\ Settlement = null

\* C23: for every row count n, oneOrNone resolves with null when n = 0,
\* with the single row when n = 1, and rejects with the error "Multiple rows
\* were not expected." when n > 1.
C23_OneOrNone ==
    Returned("oneOrNone") =>
        /\ ~Transforming =>
              /\ N = 0 => Resolved /\ Settlement = null
              /\ N = 1 => Resolved /\ Settlement = row(call.in.rows[1])
        /\ N > 1 => Rejected /\ Settlement = failure("Multiple rows were not expected.")

\* oneOrNone was called for a statement that returned two rows, and rejected
C23_Witness ==
    /\ Returned("oneOrNone") /\ N = 2
    /\ Rejected /\ Settlement = failure("Multiple rows were not expected.")

\* C24: for every row count n >= 0, manyOrNone and any resolve with the
\* array of exactly the n rows returned and never reject with a cardinality
\* error; both give the same outcome for every row set.
C24_ManyOrNoneAndAny ==
    call.op \in {"manyOrNone", "any"} =>
        /\ ~call.in.fails => Resolved /\ Settlement = array(call.in.rows)
        /\ Settlement.t \notin CardinalityErrors
        /\ call.out = manyOrNone(call.in)
        /\ call.out = any(call.in)

\* any was called for a statement that returned no row: an empty array
C24_Witness ==
    Returned("any") /\ N = 0 /\ Resolved /\ Settlement = array(<<>>)

\* C25: for a query resolving n rows, map and each call the function once
\* per row, in index order 0 .. n-1, with the row, its index and the
\* receiver; map resolves with the array of the results in row order, each
\* with the array of rows.  (A function that throws ends the iteration.)
C25_MapEach ==
    call.op \in {"map", "each"} =>
        LET made == call.out.calls
            rows == call.in.rows
        IN  /\ Len(made) <= N
            /\ \A i \in DOMAIN made :
                  made[i] = Invocation(call.in.thisArg, row(rows[i]), i - 1)
            /\ call.in.fails => made = <<>>
            /\ (~call.in.fails /\ Transforming /\ ~call.in.cb.throws) =>
                  /\ Len(made) = N
                  /\ Resolved
                  /\ call.op = "map" =>
                        /\ Len(Settlement.items) = N
                        /\ \A i \in 1..N :
                              Settlement.items[i] = returnedAt(rows[i], i - 1)
                  /\ call.op = "each" => Settlement = array(rows)

\* map was called for a statement that returned the most rows, not all of
\* them equal, and resolved
C25_Witness ==
    /\ Returned("map") /\ N = MaxRows /\ Resolved
    /\ call.in.rows[1] # call.in.rows[N]
    /\ Len(call.out.calls) = N

\* what obj.query gave the operation that was called
Underlying ==
    query(call.in,
          CASE call.op = "one" -> resultOne
            [] call.op = "result" -> resultQuery
            [] OTHER -> resultOne \cup resultNone)

\* C26: for one, oneOrNone, proc and result: without a transformation
\* function what the query settled with passes through unchanged; with one,
\* it is called exactly once, with the resolved value and the receiver, and
\* what it returns becomes the resolution; it is never called when the query
\* rejects, and the rejection passes through unchanged.
C26_Transform ==
    call.op \in {"one", "oneOrNone", "proc", "result"} =>
        /\ ~Transforming => call.out = Underlying
        /\ (Transforming /\ Underlying.future.state = "resolved") =>
              /\ call.out.calls
                    = <<Invocation(call.in.thisArg, Underlying.future.value, NoIndex)>>
              /\ ~call.in.cb.throws =>
                    call.out.future = resolved(returned(Underlying.future.value))
        /\ Underlying.future.state = "rejected" => call.out = Underlying

\* proc was called with a function and a receiver for a statement that
\* returned one row, and resolved with what the function returned
C26_Witness ==
    /\ Returned("proc") /\ N = 1 /\ Transforming /\ call.in.thisArg = "thisArg"
    /\ Len(call.out.calls) = 1
    /\ call.out.future = resolved(returned(row(call.in.rows[1])))

\* ----------------------------------------------------------------- C27
\* C27: on every protocol object the built-in operations are locked before
\* the extension hook runs - the hook can add operations but cannot
\* overwrite a built-in one - and the object is frozen when extend()
\* returns: later code can neither add nor overwrite a property.
C27_LockedThenFrozen ==
    obj.kind # "" =>
        /\ obj.frozen
        /\ \A name \in builtIn(obj.kind) :
              name \in DOMAIN obj.owner /\ obj.owner[name] = "builtin"
        /\ \A name \in DOMAIN obj.owner : obj.owner[name] \in {"builtin", "hook"}
        /\ \A i \in DOMAIN obj.log :
              LET w == obj.log[i]
              IN  /\ w.who = "hook" =>
                        /\ w.done <=> w.name \notin builtIn(obj.kind)
                        /\ w.done => obj.owner[w.name] = "hook"
                  /\ w.who = "later" => ~w.done

\* the hook of a task object tried to replace `one` and added `myOp`; the
\* task callback then tried to replace `myOp`
C27_Witness ==
    /\ obj.kind = "task"
    /\ obj.log = <<[name |-> "one", who |-> "hook", done |-> FALSE],
                   [name |-> "myOp", who |-> "hook", done |-> TRUE],
                   [name |-> "myOp", who |-> "later", done |-> FALSE]>>
    /\ obj.owner["one"] = "builtin" /\ obj.owner["myOp"] = "hook"

\* ------------------------------------------------------------ C28, C29
\* the constructor calls before call i that registered the key of call i
Earlier(i) ==
    {j \in 1..(i - 1) :
        /\ created[j].made
        /\ stringify(created[j].cn) = stringify(created[i].cn)}

\* the constructor calls with the key of call i that were given a diagnostic
WarnedLike(i) ==
    {j \in DOMAIN created :
        /\ created[j].warned
        /\ stringify(created[j].cn) = stringify(created[i].cn)}

\* C28 as stated: creating a top-level handle emits the diagnostic if and
\* only if a handle with the same key was created earlier and warnings are
\* not suppressed; the first creation for a key registers it without a
\* diagnostic; in every case the handle is created.
C28_AsStated ==
    \A i \in DOMAIN created :
        /\ created[i].made
        /\ created[i].warned <=> (Earlier(i) # {} /\ ~created[i].noWarnings)
        /\ stringify(created[i].cn) \in dbObjects

\* C29 as stated: over any sequence of creations the diagnostic is emitted
\* at most once per distinct connection target.
C29_AsStated ==
    \A i \in DOMAIN created : Cardinality(WarnedLike(i)) <= 1

\* C29 (amended): the diagnostic is emitted once for every creation whose
\* key was registered by an earlier one, unless warnings are suppressed for
\* it, and never for the first creation of a key: n creations of one key
\* emit at most n - 1 diagnostics.
C29_OneDiagnosticPerRepeat ==
    \A i \in DOMAIN created :
        LET same == {j \in DOMAIN created :
                        /\ created[j].made
                        /\ stringify(created[j].cn) = stringify(created[i].cn)}
        IN  /\ created[i].warned <=>
                  (created[i].made /\ Earlier(i) # {} /\ ~created[i].noWarnings)
            /\ created[i].made =>
                  /\ stringify(created[i].cn) \in dbObjects
                  /\ Cardinality(WarnedLike(i)) <= Cardinality(same) - 1
            /\ (created[i].made /\ Earlier(i) = {}) => ~created[i].warned

\* three objects for one connection string: two diagnostics
C29_Witness ==
    /\ Len(created) = 3
    /\ \A i \in 1..3 : created[i].cn.form = "string" /\ ~created[i].noWarnings
    /\ ~created[1].warned /\ created[2].warned /\ created[3].warned
    /\ Cardinality(dbObjects) = 1

\* ------------------------------------------------------------------ C31
\* the transactions on the invocation chain of handle h, h included
RECURSIVE TxOnChain(_)
TxOnChain(h) ==
    IF h = Root THEN 0
    ELSE (IF frames[h].kind = "tx" THEN 1 ELSE 0) + TxOnChain(frames[h].parent)

\* the nearest transaction on the invocation chain of handle h, h included
\* (Root when there is none)
RECURSIVE NearestTx(_)
NearestTx(h) ==
    IF h = Root THEN Root
    ELSE IF frames[h].kind = "tx" THEN h
    ELSE NearestTx(frames[h].parent)

\* C31: the depth of a transaction is the number of transactions above it on
\* its invocation chain: 0 when invoked on the root object, on a connect
\* handle or inside plain tasks only, else the depth of the nearest
\* transaction above it plus 1; a plain task carries the depth of the chain
\* on unchanged, it neither increases nor resets it.
C31_DepthCountsEnclosingTransactions ==
    \A f \in 1..nf :
        LET fr == frames[f]
            above == TxOnChain(fr.parent)
            near == NearestTx(fr.parent)
        IN  /\ fr.kind = "tx" =>
                  /\ fr.txLevel = above
                  /\ fr.txLevel = IF near = Root THEN 0 ELSE frames[near].txLevel + 1
            /\ fr.kind = "task" =>
                  fr.txLevel = IF near = Root THEN NoLevel ELSE frames[near].txLevel

\* tx -> task -> tx: depths 0 and 1, the task in between at depth 0
C31_Witness ==
    /\ nf = 3
    /\ frames[1].kind = "tx" /\ frames[1].parent = Root /\ frames[1].txLevel = 0
    /\ frames[2].kind = "task" /\ frames[2].parent = 1 /\ frames[2].txLevel = 0
    /\ frames[3].kind = "tx" /\ frames[3].parent = 2 /\ frames[3].txLevel = 1
    /\ frames[3].pc = "running"

\* ------------------------------------------------------------------ C32
\* the handles above invocation g on its invocation chain
RECURSIVE Above(_)
Above(g) ==
    IF frames[g].parent = Root THEN {}
    ELSE {frames[g].parent} \cup Above(frames[g].parent)

\* a step of a task / transaction g, its entry included, leaves the depth
\* and the connection binding of every handle above g as they were
C32_Step ==
    \A g \in Frames :
        (frames'[g] # frames[g] /\ frames'[g].kind \in {"task", "tx"}) =>
            \A h \in Frames :
                (h = frames'[g].parent \/ h \in Above(g)) =>
                    /\ frames'[h].txLevel = frames[h].txLevel
                    /\ frames'[h].db = frames[h].db

\* transactions invoked on one handle have one depth, and it is still the
\* depth that follows from the depth their handle has now
C32_Siblings ==
    \A f, g \in 1..nf :
        (frames[f].kind = "tx" /\ frames[g].kind = "tx"
            /\ frames[f].parent = frames[g].parent) =>
            /\ frames[f].txLevel = frames[g].txLevel
            /\ frames[f].txLevel = txLevelOnEntry(CtxOf(frames[f].parent).txLevel, TRUE)

\* C32: invoking task or tx changes neither the depth nor the connection
\* binding of the context it is invoked on, however the invocation ends; only
\* the clone is modified, so transactions started from one handle get one
\* depth, and the depth of the handle after a nested transaction has
\* finished is its depth before.
C32_InvocationLeavesCallerAlone == []C32_Siblings /\ [][C32_Step]_vars

\* two transactions invoked on the handle of a running transaction: the
\* first has finished, the second is at the same depth, the handle's depth
\* and connection are what they were
C32_Witness ==
    /\ nf = 3
    /\ frames[1].kind = "tx" /\ frames[1].pc = "running"
    /\ frames[1].txLevel = 0 /\ frames[1].db # NoConn
    /\ frames[2].kind = "tx" /\ frames[2].parent = 1 /\ Settled(2)
    /\ frames[3].kind = "tx" /\ frames[3].parent = 1
    /\ frames[2].txLevel = 1 /\ frames[3].txLevel = 1

\* ------------------------------------------------------------------ C33
\* the transaction that invocation g began on connection c with the
\* statement at position j is still open before position i: the BEGIN
\* succeeded and g issued no COMMIT / ROLLBACK in between
OpenBefore(c, j, i) ==
    /\ j < i
    /\ trace[c][j].op = "BEGIN" /\ trace[c][j].ok = "ok"
    /\ ~\E k \in (j + 1)..(i - 1) :
          /\ trace[c][k].f = trace[c][j].f
          /\ trace[c][k].op \in {"COMMIT", "ROLLBACK"}

\* C33 as stated: on one connection BEGIN is never issued while a
\* transaction begun on it earlier is still open, in every interleaving of
\* transactions started from one task handle or connect handle.
C33_AsStated ==
    \A c \in Conns :
        \A i \in DOMAIN trace[c] :
            trace[c][i].op = "BEGIN" =>
                ~\E j \in DOMAIN trace[c] : OpenBefore(c, j, i)

\* ------------------------------------------------------------------ C34
\* connection c is checked out when its event at position i happens: the
\* last ACQ / REL before it is an ACQ
CheckedOutAt(c, i) ==
    \E j \in 1..(i - 1) :
        /\ trace[c][j].op = "ACQ"
        /\ \A k \in (j + 1)..(i - 1) : trace[c][k].op # "REL"

\* C34 as stated: no statement is sent on a connection after it has been
\* released; a nested task / transaction still running when the owner of
\* the connection finishes, or when done() is called on the connect handle,
\* executes nothing on the released connection.
C34_AsStated ==
    \A c \in Conns :
        \A i \in DOMAIN trace[c] :
            trace[c][i].op \notin {"ACQ", "REL"} => CheckedOutAt(c, i)

\* ------------------------------------------------------------------ C35
\* the position of the acquisition that the event at position i of
\* connection c falls under (0 when there is none)
AcquiredAt(c, i) ==
    LET acqs == {j \in 1..(i - 1) : trace[c][j].op = "ACQ"}
    IN  IF acqs = {} THEN 0 ELSE CHOOSE j \in acqs : \A k \in acqs : k <= j

\* C35 as stated: a connection is never released, by the task / transaction
\* engine or by done(), while a transaction begun on it is still open: every
\* BEGIN that succeeded on it since it was acquired is followed, before the
\* release, by the COMMIT or ROLLBACK of the same transaction.
C35_AsStated ==
    \A c \in Conns :
        \A i \in DOMAIN trace[c] :
            trace[c][i].op = "REL" =>
                \A j \in (AcquiredAt(c, i) + 1)..(i - 1) :
                    ~OpenBefore(c, j, i)

\* ------------------------------------------------------------------ C36
\* the positions on connection c of the statements of invocation f among ops
At(c, f, ops) ==
    {i \in DOMAIN trace[c] : trace[c][i].f = f /\ trace[c][i].op \in ops}

\* f is a transaction nested in transaction g on the connection of g
NestedIn(f, g) ==
    /\ frames[f].kind = "tx" /\ Reusing(f)
    /\ g # Root /\ g = NearestTx(frames[f].parent)
    /\ frames[g].conn = frames[f].conn

\* the inner opening statement follows the opening statement of the
\* enclosing transaction
C36_Opening ==
    \A f \in 1..nf, g \in Frames :
        NestedIn(f, g) =>
            \A i \in At(frames[f].conn, f, OpeningOps) :
                \E j \in At(frames[f].conn, g, OpeningOps) : j < i

\* the inner closing statement precedes the closing statement of the
\* enclosing transaction
C36_Closing ==
    \A f \in 1..nf, g \in Frames :
        NestedIn(f, g) =>
            \A i \in At(frames[f].conn, f, ClosingOps) :
                \A k \in At(frames[f].conn, g, ClosingOps) : i < k

\* C36 as stated: for a transaction nested in another on the same
\* connection, the inner savepoint statement is issued after the opening
\* statement of the enclosing transaction, and the inner savepoint release
\* or rollback to the savepoint is issued before the enclosing
\* transaction's closing statement, in every execution.
C36_AsStated == C36_Opening /\ C36_Closing

\* ------------------------------------------------------------------ C37
\* a handle returned by connect whose done() has not been called
OpenHandle(h) ==
    /\ frames[h].kind = "connect" /\ frames[h].pc = "resolved"
    /\ frames[h].nDone = 0

\* an open connect handle is bound to a connection that is checked out
C37_Bound ==
    \A h \in Frames :
        OpenHandle(h) => (frames[h].db # NoConn /\ ~Idle(frames[h].db))

\* a step that is not a call of done() on the handle leaves its connection
\* bound and releases nothing on it; the call of done() releases it
C37_Step ==
    \A h \in Frames :
        (frames[h].kind = "connect" /\ frames[h].db # NoConn) =>
            LET c == frames[h].db
            IN  IF frames'[h].nDone = frames[h].nDone
                THEN /\ frames'[h].db = c
                     /\ released'[c] = released[c]
                     /\ At(c, h, {"REL"}) = {}
                ELSE /\ frames'[h].db = NoConn
                     /\ released'[c] = released[c] + 1

\* C37: on a handle returned by connect, queries and nested tasks /
\* transactions never release the connection: after any sequence of them,
\* succeeding or failing, the connection stays bound and usable until done()
\* is called; only done() releases it.
C37_OnlyDoneReleases == []C37_Bound /\ [][C37_Step]_vars

\* on a connect handle a transaction was rolled back and a statement was
\* sent after it: the connection is still bound and checked out
C37_Witness ==
    \E h \in Frames :
        /\ OpenHandle(h) /\ frames[h].db # NoConn /\ ~Idle(frames[h].db)
        /\ Ops(trace[frames[h].db]) = <<"ACQ", "BEGIN", "ROLLBACK", "Q">>
        /\ \E f \in Frames :
              frames[f].parent = h /\ frames[f].kind = "tx" /\ frames[f].pc = "rejected"
====
